---- MODULE Spec2Model ----
(***************************************************************************)
(* GrowPodEmpire: the cultivation ledger (blockchain/cultivation_chain.py), *)
(* the growth and environmental analytics (services/) and the coordinator  *)
(* (app.py), as a state machine.                                           *)
(*                                                                         *)
(* Python values are modelled as follows.                                  *)
(*   - A datetime is the number of whole days since the process started;   *)
(*     datetime.now() reads the variable now.                              *)
(*   - Inside a block payload (a Python dict of JSON-like values) every    *)
(*     leaf carries its Python type: S(s) a str, N(n) a number, None,      *)
(*     Dt(t) a datetime; a dict is a record of such values.  The same      *)
(*     tagged leaves are used for Optional attributes of the models.       *)
(*   - The float nan, which is no number, is the leaf NaN.                 *)
(*   - A float that is a quotient (a growth rate) is an exact reduced      *)
(*     fraction [n, d].                                                    *)
(*   - Python list index i is TLA+ sequence index i + 1.                   *)
(***************************************************************************)
EXTENDS Integers, Sequences, FiniteSets, TLC

VARIABLES
    now,                \* the wall clock read by datetime.now()
    chain,              \* CultivationBlockchain.chain
    pods,               \* GrowPodEmpire.pods
    plants,             \* GrowPodEmpire.plants
    growth_history,     \* GrowthTracker.growth_history
    condition_history,  \* EnvironmentalMonitor.condition_history
    call,               \* the last public operation called, with its arguments
    ret,                \* what that operation returned or raised
    pc,                 \* position of each thread / of the handler being stepped
    frame,              \* local variables of each thread / of the stepped handler
    tampered            \* index of the block whose stored payload was edited, or 0

vars == <<now, chain, pods, plants, growth_history, condition_history,
          call, ret, pc, frame, tampered>>

----------------------------------------------------------------------------
(* Bounds of the model and the input sets.                                 *)

MaxTime == 1
MaxBlocks == 2
NThreads == 2

\* Identifiers the caller passes.  Pods and plants are named from one space
\* of strings, so a pod and a plant may carry the same identifier ("a"); only
\* the pods of CreatedPodIds are ever created, so "b" is always an unknown pod.
PodIds == {"a", "b"}
CreatedPodIds == {"a"}
PlantIds == {"a", "c"}
Strains == {"og"}
PodNames == {"pod"}
Capacities == {0, 1}
Times == 0..MaxTime
Threads == 1..NThreads

----------------------------------------------------------------------------
(* Tagged Python values.                                                   *)

S(s) == [str |-> s]
N(n) == [num |-> n]
Dt(t) == [datetime |-> t]
None == [none |-> TRUE]
NaN == [nonfinite |-> "NaN"]

IsDatetime(v) == DOMAIN v = {"datetime"}
IsLeaf(v) ==
    DOMAIN v \in {{"str"}, {"num"}, {"none"}, {"datetime"}, {"frac"}, {"nonfinite"}}
IsDict(v) == ~IsLeaf(v)

\* datetime.isoformat(): a fixed-format rendering, one string per instant.
isoformat(t) == "T" \o ToString(t)

----------------------------------------------------------------------------
(* Block                                                                   *)

RECURSIVE _make_serializable(_)
_make_serializable(obj) ==
    IF IsDatetime(obj) THEN S(isoformat(obj.datetime))
    ELSE IF IsDict(obj) THEN [k \in DOMAIN obj |-> _make_serializable(obj[k])]
    ELSE obj

\* json.dumps(..., sort_keys=True) of a structure of dicts and leaves is one
\* string per structure (a record has no key order), and sha256 is taken to be
\* collision free: the digest is represented by the text it was computed from.
sha256(block_string) == [sha256 |-> block_string]

calculate_hash(block) ==
    sha256([block_number |-> block.block_number,
            timestamp |-> isoformat(block.timestamp),
            data |-> _make_serializable(block.data),
            previous_hash |-> block.previous_hash])

\* A slip in Block.__init__: the hash computed before previous_hash is set.
Block_hashed_early(block_number, data, previous_hash, t) ==
    LET b == [block_number |-> block_number, timestamp |-> t, data |-> data,
              previous_hash |-> S("0")]
    IN  [block_number |-> block_number, timestamp |-> t, data |-> data,
         previous_hash |-> previous_hash, hash |-> calculate_hash(b)]

\* Block.__init__ at clock reading t.
Block(block_number, data, previous_hash, t) ==
    LET b == [block_number |-> block_number, timestamp |-> t, data |-> data,
              previous_hash |-> previous_hash]
    IN  [block_number |-> block_number, timestamp |-> t, data |-> data,
         previous_hash |-> previous_hash, hash |-> calculate_hash(b)]

to_record(block) ==
    [record_id |-> IF "id" \in DOMAIN block.data THEN block.data.id ELSE S("unknown"),
     record_type |-> IF "type" \in DOMAIN block.data THEN block.data.type
                     ELSE S("unknown"),
     data_hash |-> block.hash,
     previous_hash |-> block.previous_hash,
     timestamp |-> block.timestamp,
     block_number |-> block.block_number]

----------------------------------------------------------------------------
(* CultivationBlockchain                                                   *)

GenesisData == [type |-> S("genesis"), data |-> S("GrowPodEmpire Genesis Block")]

\* A slip in create_genesis_block: the genesis block linked to the empty string.
GenesisPreviousHash_empty == S("")
GenesisPreviousHash == S("0")

create_genesis_block(t) == <<Block(0, GenesisData, GenesisPreviousHash, t)>>

get_latest_block(ch) == ch[Len(ch)]

\* A slip in add_block: block numbers counted from 1.
NewBlockNumber_off_by_one(ch) == Len(ch) + 1
NewBlockNumber(ch) == Len(ch)

\* A slip in add_block: every block linked to the genesis block.
NewPreviousHash_genesis(ch) == ch[1].hash
NewPreviousHash(ch) == get_latest_block(ch).hash

\* A slip in add_block: the new block inserted at the head of the list.
add_block_at_head(ch, data, t) ==
    <<Block(NewBlockNumber(ch), data, NewPreviousHash(ch), t)>> \o ch
\* add_block run without interruption: the chain it leaves.
add_block(ch, data, t) ==
    Append(ch, Block(NewBlockNumber(ch), data, NewPreviousHash(ch), t))

record_plant_data(ch, plant_id, data, t) ==
    add_block(ch, [type |-> S("plant_data"), id |-> S(plant_id),
                   timestamp |-> S(isoformat(t)), data |-> data], t)

record_environmental_data(ch, pod_id, data, t) ==
    add_block(ch, [type |-> S("environmental_data"), id |-> S(pod_id),
                   timestamp |-> S(isoformat(t)), data |-> data], t)

record_harvest_block(ch, plant_id, harvest_data, t) ==
    add_block(ch, [type |-> S("harvest"), id |-> S(plant_id),
                   timestamp |-> S(isoformat(t)), data |-> harvest_data], t)

\* The indices the loop of verify_chain visits: range(1, len(chain)).
VerifyRange(ch) == 2..Len(ch)

verify_chain(ch) ==
    \A i \in VerifyRange(ch) :
        /\ ch[i].hash = calculate_hash(ch[i])
        /\ ch[i].previous_hash = ch[i - 1].hash

\* A slip in the two filters: the scan starts at the genesis block.
SkipGenesis_none(ch) == ch
\* chain[1:]: every block but the genesis block.
SkipGenesis(ch) == SubSeq(ch, 2, Len(ch))

BlockView(block) ==
    [block_number |-> block.block_number, timestamp |-> isoformat(block.timestamp),
     hash |-> block.hash, data |-> block.data]

\* block.data.get(key) == value
DataGetEquals(block, key, value) ==
    key \in DOMAIN block.data /\ block.data[key] = value

get_records_by_type(ch, record_type) ==
    LET Test(b) == DataGetEquals(b, "type", S(record_type))
        sel == SelectSeq(SkipGenesis(ch), Test)
    IN  [i \in 1..Len(sel) |-> BlockView(sel[i])]

get_records_by_id(ch, record_id) ==
    LET Test(b) == DataGetEquals(b, "id", S(record_id))
        sel == SelectSeq(SkipGenesis(ch), Test)
    IN  [i \in 1..Len(sel) |-> BlockView(sel[i])]

\* A slip in get_chain_info: latest_block read from chain[0].
get_chain_info_genesis(ch) ==
    [total_blocks |-> Len(ch),
     is_valid |-> verify_chain(ch),
     latest_block |-> [number |-> ch[1].block_number,
                       hash |-> ch[1].hash,
                       timestamp |-> isoformat(ch[1].timestamp)]]

get_chain_info(ch) ==
    [total_blocks |-> Len(ch),
     is_valid |-> verify_chain(ch),
     latest_block |-> [number |-> ch[Len(ch)].block_number,
                       hash |-> ch[Len(ch)].hash,
                       timestamp |-> isoformat(ch[Len(ch)].timestamp)]]

----------------------------------------------------------------------------
(* Exact arithmetic for quotients.                                         *)

Abs(x) == IF x < 0 THEN -x ELSE x

RECURSIVE GCD(_, _)
GCD(a, b) == IF b = 0 THEN a ELSE GCD(b, a % b)

\* n / d for d > 0, reduced.
Frac(n, d) ==
    LET g == GCD(Abs(n), d)
    IN  [frac |-> <<n \div g, d \div g>>]

Num(q) == q.frac[1]
Den(q) == q.frac[2]
FracLess(p, q) == Num(p) * Den(q) < Num(q) * Den(p)
FracAdd(p, q) == Frac(Num(p) * Den(q) + Num(q) * Den(p), Den(p) * Den(q))
FracScale(p, n, d) == Frac(Num(p) * n, Den(p) * d)

RECURSIVE FracSum(_)
FracSum(qs) == IF qs = <<>> THEN Frac(0, 1) ELSE FracAdd(Head(qs), FracSum(Tail(qs)))

\* numpy.mean of a list of quotients; of the empty list it is nan (None here).
np_mean(qs) ==
    IF qs = <<>> THEN None
    ELSE LET total == FracSum(qs) IN Frac(Num(total), Den(total) * Len(qs))

Max(a, b) == IF a >= b THEN a ELSE b
Min(a, b) == IF a <= b THEN a ELSE b

\* d[k] = v on a dict.
Put(d, k, v) == [x \in DOMAIN d \cup {k} |-> IF x = k THEN v ELSE d[x]]

\* d.get(k, []) on a dict of lists.
GetList(d, k) == IF k \in DOMAIN d THEN d[k] ELSE <<>>

\* s[-n:] on a list.
LastN(s, n) == IF Len(s) > n THEN SubSeq(s, Len(s) - n + 1, Len(s)) ELSE s

\* s[-1] on a non-empty list.
LastOf(s) == s[Len(s)]

----------------------------------------------------------------------------
(* models: GrowthStage                                                     *)

GrowthStages == <<"seed", "germination", "seedling", "vegetative", "flowering", "harvest">>
Stages == {GrowthStages[i] : i \in DOMAIN GrowthStages}
StageIndex(stage) == CHOOSE i \in DOMAIN GrowthStages : GrowthStages[i] = stage

----------------------------------------------------------------------------
(* GrowthTracker                                                           *)

\* stage_growth_rates.get(stage, 1.0), in cm per day.
stage_growth_rates(stage) ==
    CASE stage = "seedling" -> Frac(1, 2)
      [] stage = "vegetative" -> Frac(2, 1)
      [] stage = "flowering" -> Frac(3, 10)
      [] OTHER -> Frac(1, 1)

\* stage_durations.get(stage, 0), in days.
stage_durations(stage) ==
    CASE stage = "seed" -> 3
      [] stage = "germination" -> 7
      [] stage = "seedling" -> 14
      [] stage = "vegetative" -> 30
      [] stage = "flowering" -> 60
      [] OTHER -> 0

\* The loop of _predict_harvest_date over list(GrowthStage)[index:], which
\* breaks at HARVEST.
RECURSIVE RemainingFrom(_)
RemainingFrom(i) ==
    IF i > Len(GrowthStages) \/ GrowthStages[i] = "harvest" THEN 0
    ELSE stage_durations(GrowthStages[i]) + RemainingFrom(i + 1)

\* A slip in _predict_harvest_date: the slice starts after the current stage.
remaining_days_after_current(stage) == RemainingFrom(StageIndex(stage) + 1)

remaining_days(stage) == RemainingFrom(StageIndex(stage))

\* [m.growth_rate for m in recent_metrics if m.growth_rate]: the truth test
\* drops None and also a rate of 0.0.
TruthyRates(metrics) ==
    LET Truthy(m) == m.growth_rate # None /\ Num(m.growth_rate) # 0
        sel == SelectSeq(metrics, Truthy)
    IN  [i \in 1..Len(sel) |-> sel[i].growth_rate]

\* The days _predict_harvest_date adds to now.
predicted_days(plant, history) ==
    LET remaining == remaining_days(plant.growth_stage)
        avg == np_mean(TruthyRates(LastN(history, 5)))
        expected == stage_growth_rates(plant.growth_stage)
    IN  IF Len(history) > 3 /\ avg # None /\ Num(avg) > 0
        THEN (remaining * Num(expected) * Den(avg)) \div (Den(expected) * Num(avg))
        ELSE remaining

_predict_harvest_date(plant, history, t) == t + predicted_days(plant, history)

\* A slip in track_growth: the height difference is not divided by the days.
growth_rate_of_undivided(history, height, t) ==
    IF history # <<>> /\ t - history[Len(history)].timestamp > 0
    THEN Frac(height - history[Len(history)].height, 1)
    ELSE None

\* growth_rate of track_growth.
growth_rate_of(history, height, t) ==
    IF history # <<>> /\ t - history[Len(history)].timestamp > 0
    THEN Frac(height - history[Len(history)].height, t - history[Len(history)].timestamp)
    ELSE None

\* A slip in track_growth: the penalty is not stopped at 50.
health_score_of_unfloored(plant, growth_rate) ==
    IF growth_rate = None THEN plant.health_score
    ELSE IF FracLess(growth_rate, FracScale(stage_growth_rates(plant.growth_stage), 1, 2))
         THEN Max(0, plant.health_score - 10)
    ELSE IF FracLess(FracScale(stage_growth_rates(plant.growth_stage), 3, 2), growth_rate)
         THEN Min(100, plant.health_score + 5)
    ELSE plant.health_score

\* health_score of track_growth.
health_score_of(plant, growth_rate) ==
    LET expected == stage_growth_rates(plant.growth_stage)
    IN  IF growth_rate = None THEN plant.health_score
        ELSE IF FracLess(growth_rate, FracScale(expected, 1, 2))
             THEN Max(50, plant.health_score - 10)
        ELSE IF FracLess(FracScale(expected, 3, 2), growth_rate)
             THEN Min(100, plant.health_score + 5)
        ELSE plant.health_score

\* The GrowthMetrics track_growth builds.
track_growth_metrics(gh, plant, height, leaf_count, t) ==
    LET plant_history == GetList(gh, plant.id)
        growth_rate == growth_rate_of(plant_history, height, t)
    IN  [plant_id |-> plant.id,
         timestamp |-> t,
         height |-> height,
         leaf_count |-> leaf_count,
         health_score |-> health_score_of(plant, growth_rate),
         growth_rate |-> growth_rate,
         predicted_harvest_date |-> Dt(_predict_harvest_date(plant, plant_history, t))]

\* A slip in track_growth: one list object shared by all keys, so that the
\* sample lands in every history.
track_growth_shared(gh, plant, height, leaf_count, t) ==
    [k \in DOMAIN gh \cup {plant.id} |->
        Append(GetList(gh, k), track_growth_metrics(gh, plant, height, leaf_count, t))]

\* growth_history after track_growth.
track_growth(gh, plant, height, leaf_count, t) ==
    Put(gh, plant.id,
        Append(GetList(gh, plant.id), track_growth_metrics(gh, plant, height, leaf_count, t)))

\* A slip in get_growth_analytics: the rates are filtered by truth value, as
\* _predict_harvest_date filters them.
get_growth_analytics_truthy(gh, plant_id) ==
    LET history == GetList(gh, plant_id)
        growth_rates == TruthyRates(history)
    IN  IF history = <<>> THEN [error |-> "No growth data available"]
        ELSE [total_measurements |-> Len(history),
              current_height |-> history[Len(history)].height,
              height_gained |-> IF Len(history) > 1
                                THEN history[Len(history)].height - history[1].height
                                ELSE 0,
              average_growth_rate |-> IF growth_rates # <<>> THEN np_mean(growth_rates)
                                      ELSE Frac(0, 1),
              current_health_score |-> history[Len(history)].health_score,
              predicted_harvest |->
                  _make_serializable(history[Len(history)].predicted_harvest_date)]

get_growth_analytics(gh, plant_id) ==
    LET history == GetList(gh, plant_id)
        sel == SelectSeq(history, LAMBDA m : m.growth_rate # None)
        growth_rates == [i \in 1..Len(sel) |-> sel[i].growth_rate]
    IN  IF history = <<>> THEN [error |-> "No growth data available"]
        ELSE [total_measurements |-> Len(history),
              current_height |-> history[Len(history)].height,
              height_gained |-> IF Len(history) > 1
                                THEN history[Len(history)].height - history[1].height
                                ELSE 0,
              average_growth_rate |-> IF growth_rates # <<>> THEN np_mean(growth_rates)
                                      ELSE Frac(0, 1),
              current_health_score |-> history[Len(history)].health_score,
              predicted_harvest |->
                  _make_serializable(history[Len(history)].predicted_harvest_date)]

----------------------------------------------------------------------------
(* EnvironmentalMonitor.  Sensor values are held in tenths of their unit   *)
(* (245 is 24.5), so that the 10% tolerance band stays in the integers.    *)

Parameters == <<"temperature", "humidity", "co2_level", "light_intensity", "ph_level">>
ParameterSet == {Parameters[i] : i \in DOMAIN Parameters}

\* optimal_ranges[param] as <<min, max>>, in whole units.
optimal_ranges(param) ==
    CASE param = "temperature" -> <<20, 28>>
      [] param = "humidity" -> <<40, 60>>
      [] param = "co2_level" -> <<800, 1500>>
      [] param = "light_intensity" -> <<400, 700>>
      [] param = "ph_level" -> <<6, 7>>

\* min_val * 0.9 and max_val * 1.1, in tenths.
LowBand(param) == 9 * optimal_ranges(param)[1]
HighBand(param) == 11 * optimal_ranges(param)[2]

\* A slip in _analyze_conditions: the ends of the tolerance band are left out.
status_of_exclusive(param, value) ==
    IF 10 * optimal_ranges(param)[1] <= value /\ value <= 10 * optimal_ranges(param)[2]
    THEN "optimal"
    ELSE IF LowBand(param) < value /\ value < HighBand(param)
    THEN "acceptable"
    ELSE "critical"

status_of(param, value) ==
    IF 10 * optimal_ranges(param)[1] <= value /\ value <= 10 * optimal_ranges(param)[2]
    THEN "optimal"
    ELSE IF LowBand(param) <= value /\ value <= HighBand(param)
    THEN "acceptable"
    ELSE "critical"

\* A condition may name, under "nan", the parameters whose value is
\* float('nan'): every comparison with such a value is false.
IsNaN(conditions, param) == "nan" \in DOMAIN conditions /\ param \in conditions.nan

_analyze_conditions(conditions) ==
    [param \in ParameterSet |->
        [value |-> IF IsNaN(conditions, param) THEN NaN ELSE conditions[param],
         status |-> IF IsNaN(conditions, param) THEN "critical"
                    ELSE status_of(param, conditions[param]),
         optimal_range |-> optimal_ranges(param)]]

TemperatureAlerts(conditions) ==
    IF IsNaN(conditions, "temperature") THEN <<>>
    ELSE IF conditions.temperature < LowBand("temperature")
    THEN <<[alert |-> "Temperature too low", value |-> conditions.temperature]>>
    ELSE IF conditions.temperature > HighBand("temperature")
    THEN <<[alert |-> "Temperature too high", value |-> conditions.temperature]>>
    ELSE <<>>

HumidityAlerts(conditions) ==
    IF IsNaN(conditions, "humidity") THEN <<>>
    ELSE IF conditions.humidity < LowBand("humidity")
    THEN <<[alert |-> "Humidity too low", value |-> conditions.humidity]>>
    ELSE IF conditions.humidity > HighBand("humidity")
    THEN <<[alert |-> "Humidity too high", value |-> conditions.humidity]>>
    ELSE <<>>

\* A slip in _generate_alerts: the pH is given the 10% band of the others.
PhAlerts_banded(conditions) ==
    IF conditions.ph_level < LowBand("ph_level") \/ conditions.ph_level > HighBand("ph_level")
    THEN <<[alert |-> "pH level out of range", value |-> conditions.ph_level]>>
    ELSE <<>>

PhAlerts(conditions) ==
    IF IsNaN(conditions, "ph_level") THEN <<>>
    ELSE IF \/ conditions.ph_level < 10 * optimal_ranges("ph_level")[1]
            \/ conditions.ph_level > 10 * optimal_ranges("ph_level")[2]
    THEN <<[alert |-> "pH level out of range", value |-> conditions.ph_level]>>
    ELSE <<>>

_generate_alerts(conditions) ==
    TemperatureAlerts(conditions) \o HumidityAlerts(conditions) \o PhAlerts(conditions)

\* A slip in record_conditions: the list created on every call.
record_conditions_recreating(chist, pod_id, conditions) ==
    Put(chist, pod_id, <<conditions>>)

\* condition_history after record_conditions.
record_conditions(chist, pod_id, conditions) ==
    Put(chist, pod_id, Append(GetList(chist, pod_id), conditions))

\* What record_conditions returns.
record_conditions_result(conditions) ==
    [recorded |-> TRUE,
     timestamp |-> isoformat(conditions.timestamp),
     analysis |-> _analyze_conditions(conditions),
     alerts |-> _generate_alerts(conditions)]

\* The values of one attribute over a list of conditions.
Column(cs, param) == [i \in 1..Len(cs) |-> cs[i][param]]

\* numpy.min and numpy.max of a non-empty list.
np_min(xs) == CHOOSE x \in {xs[i] : i \in DOMAIN xs} : \A i \in DOMAIN xs : x <= xs[i]
np_max(xs) == CHOOSE x \in {xs[i] : i \in DOMAIN xs} : \A i \in DOMAIN xs : x >= xs[i]

\* numpy.mean of a list of numbers, as a quotient.
MeanOf(xs) == np_mean([i \in 1..Len(xs) |-> Frac(xs[i], 1)])

\* numpy.std, the population standard deviation: the root of the mean of the
\* squared deviations, kept as the quotient under the root.
np_std(xs) ==
    LET n == Len(xs)
        total == FracSum([i \in 1..n |-> Frac(xs[i], 1)])
        squares == FracSum([i \in 1..n |-> Frac(xs[i] * xs[i], 1)])
    IN  [sqrt |-> Frac(n * Num(squares) - Num(total) * Num(total), n * n)]

_get_overall_status(latest_condition) ==
    IF latest_condition = None THEN "unknown"
    ELSE LET analysis == _analyze_conditions(latest_condition)
             critical == {q \in DOMAIN analysis : analysis[q].status = "critical"}
             acceptable == {q \in DOMAIN analysis : analysis[q].status = "acceptable"}
         IN  IF Cardinality(critical) > 0 THEN "critical"
             ELSE IF Cardinality(acceptable) > 2 THEN "acceptable"
             ELSE "optimal"

\* history[-10:] if len(history) > 10 else history
FallbackSize == 10

\* A slip in get_environment_analytics: the fallback is the whole history.
recent_history_of_unbounded(history, hours, t) ==
    LET in_window == SelectSeq(history, LAMBDA c : c.timestamp >= t - hours \div 24)
    IN  IF in_window # <<>> THEN in_window ELSE history

\* recent_history of get_environment_analytics at clock reading t; hours is a
\* whole number of days.
recent_history_of(history, hours, t) ==
    LET cutoff_time == t - hours \div 24
        in_window == SelectSeq(history, LAMBDA c : c.timestamp >= cutoff_time)
    IN  IF in_window # <<>> THEN in_window
        ELSE IF Len(history) > FallbackSize THEN LastN(history, FallbackSize)
        ELSE history

get_environment_analytics(chist, pod_id, hours, t) ==
    LET history == GetList(chist, pod_id)
        recent_history == recent_history_of(history, hours, t)
        temps == Column(recent_history, "temperature")
        humidities == Column(recent_history, "humidity")
        co2_levels == Column(recent_history, "co2_level")
    IN  IF history = <<>> THEN [error |-> "No environmental data available"]
        ELSE [period_hours |-> hours,
              measurements |-> Len(recent_history),
              temperature |-> [average |-> MeanOf(temps), min |-> np_min(temps),
                               max |-> np_max(temps), std_dev |-> np_std(temps)],
              humidity |-> [average |-> MeanOf(humidities), min |-> np_min(humidities),
                            max |-> np_max(humidities), std_dev |-> np_std(humidities)],
              co2 |-> [average |-> MeanOf(co2_levels), min |-> np_min(co2_levels),
                       max |-> np_max(co2_levels)],
              overall_status |-> _get_overall_status(LastOf(recent_history))]

\* EnvironmentalCondition.model_dump()
condition_dump(conditions) ==
    [timestamp |-> Dt(conditions.timestamp),
     temperature |-> N(conditions.temperature),
     humidity |-> N(conditions.humidity),
     co2_level |-> N(conditions.co2_level),
     light_intensity |-> N(conditions.light_intensity),
     ph_level |-> N(conditions.ph_level)]

----------------------------------------------------------------------------
(* GrowPodEmpire (the coordinator): the pieces of each handler.            *)

Heights == {10, 15}
LeafCounts == {None}
\* The floats record_harvest is given: a weight in grams or nan, and a score.
Yields == {N(150), NaN}
Qualities == {N(9)}
StageInputs == {"vegetative", "harvest"}

\* EnvironmentalCondition(...) built at clock reading t: one reading inside
\* every optimal range and one outside every tolerance band.
Readings(t) ==
    {[timestamp |-> t, temperature |-> 245, humidity |-> 550, co2_level |-> 12000,
      light_intensity |-> 6000, ph_level |-> 65],
     [timestamp |-> t, temperature |-> 350, humidity |-> 200, co2_level |-> 50000,
      light_intensity |-> 0, ph_level |-> 80]}

\* A slip in a handler: a missing plant answered with None, as get_plant does.
PlantNotFound_none(plant_id) == None
\* What a handler hands back: a value, or the exception it raises.
PodNotFound(pod_id) == [raise |-> "ValueError", msg |-> "Pod not found", id |-> pod_id]
PlantNotFound(plant_id) ==
    [raise |-> "ValueError", msg |-> "Plant not found", id |-> plant_id]
PodFull(pod_id) == [raise |-> "ValueError", msg |-> "Pod is at full capacity", id |-> pod_id]

NewPod(pod_id, name, capacity) ==
    [id |-> pod_id, name |-> name, capacity |-> capacity, current_plants |-> <<>>,
     current_conditions |-> None, active |-> TRUE]

\* Plant(id, strain, pod_id, planted_date=now); notes and metadata, which no
\* handler reads or writes, are left out.
NewPlant(plant_id, strain, pod_id, t) ==
    [id |-> plant_id, strain |-> strain, growth_stage |-> "seed", planted_date |-> t,
     pod_id |-> pod_id, height |-> None, health_score |-> 100]

\* A slip in add_plant: the capacity test lets one plant too many in.
PodIsFull_strict(pod) == Len(pod.current_plants) > pod.capacity
\* len(pod.current_plants) >= pod.capacity
PodIsFull(pod) == Len(pod.current_plants) >= pod.capacity

\* list.remove(x): drops the first occurrence.
RECURSIVE Remove(_, _)
Remove(s, x) ==
    IF s = <<>> THEN <<>>
    ELSE IF Head(s) = x THEN Tail(s)
    ELSE <<Head(s)>> \o Remove(Tail(s), x)

InSeq(x, s) == \E i \in DOMAIN s : s[i] = x

PlantedData(strain, pod_id) ==
    [action |-> S("planted"), strain |-> S(strain), pod_id |-> S(pod_id)]

StageChangeData(old_stage, stage) ==
    [action |-> S("stage_change"), old_stage |-> S(old_stage), new_stage |-> S(stage)]

GrowthData(height, metrics) ==
    [action |-> S("growth_measurement"), height |-> N(height),
     health_score |-> N(metrics.health_score), growth_rate |-> metrics.growth_rate]

HarvestData(plant, yield_amount, quality_score, t) ==
    [plant_id |-> S(plant.id), strain |-> S(plant.strain),
     harvest_date |-> S(isoformat(t)), yield_amount |-> yield_amount,
     quality_score |-> quality_score, days_to_harvest |-> N(t - plant.planted_date)]

\* add_plant: the registry writes.
AddPlantPlants(pl, plant_id, strain, pod_id, t) ==
    Put(pl, plant_id, NewPlant(plant_id, strain, pod_id, t))
AddPlantPods(pd, plant_id, pod_id) ==
    [pd EXCEPT ![pod_id].current_plants = Append(@, plant_id)]

\* record_harvest: the removal from the pod.
HarvestPods(pd, plant) ==
    IF plant.pod_id \in DOMAIN pd /\ InSeq(plant.id, pd[plant.pod_id].current_plants)
    THEN [pd EXCEPT ![plant.pod_id].current_plants = Remove(@, plant.id)]
    ELSE pd


----------------------------------------------------------------------------
(* The handlers, each run from call to return.                             *)

\* The model stops calling the mutating handlers at MaxBlocks blocks after the
\* genesis block.
CanAppend == Len(chain) <= MaxBlocks

\* A slip in create_pod: an existing pod keeps its plants under the new capacity.
create_pod_resizing(pod_id, name, capacity) ==
    /\ call' = [op |-> "create_pod", pod_id |-> pod_id]
    /\ pods' = IF pod_id \in DOMAIN pods
               THEN [pods EXCEPT ![pod_id].capacity = capacity]
               ELSE Put(pods, pod_id, NewPod(pod_id, name, capacity))
    /\ ret' = [pod |-> pods'[pod_id]]
    /\ UNCHANGED <<now, chain, plants, growth_history, condition_history,
                   pc, frame, tampered>>

create_pod(pod_id, name, capacity) ==
    /\ call' = [op |-> "create_pod", pod_id |-> pod_id]
    /\ pods' = Put(pods, pod_id, NewPod(pod_id, name, capacity))
    /\ ret' = [pod |-> pods'[pod_id]]
    /\ UNCHANGED <<now, chain, plants, growth_history, condition_history,
                   pc, frame, tampered>>

add_plant(plant_id, strain, pod_id) ==
    /\ call' = [op |-> "add_plant", plant_id |-> plant_id, pod_id |-> pod_id]
    /\ IF pod_id \notin DOMAIN pods
       THEN /\ ret' = PodNotFound(pod_id)
            /\ UNCHANGED <<chain, pods, plants>>
       ELSE IF PodIsFull(pods[pod_id])
       THEN /\ ret' = PodFull(pod_id)
            /\ UNCHANGED <<chain, pods, plants>>
       ELSE /\ plants' = AddPlantPlants(plants, plant_id, strain, pod_id, now)
            /\ pods' = AddPlantPods(pods, plant_id, pod_id)
            /\ chain' = record_plant_data(chain, plant_id, PlantedData(strain, pod_id), now)
            /\ ret' = [plant |-> plants'[plant_id]]
    /\ UNCHANGED <<now, growth_history, condition_history, pc, frame, tampered>>

update_plant_stage(plant_id, stage) ==
    /\ call' = [op |-> "update_plant_stage", plant_id |-> plant_id]
    /\ IF plant_id \notin DOMAIN plants
       THEN /\ ret' = PlantNotFound(plant_id)
            /\ UNCHANGED <<chain, plants>>
       ELSE /\ plants' = [plants EXCEPT ![plant_id].growth_stage = stage]
            /\ chain' = record_plant_data(chain, plant_id,
                            StageChangeData(plants[plant_id].growth_stage, stage), now)
            /\ ret' = [plant |-> plants'[plant_id]]
    /\ UNCHANGED <<now, pods, growth_history, condition_history, pc, frame, tampered>>

record_growth(plant_id, height, leaf_count) ==
    /\ call' = [op |-> "record_growth", plant_id |-> plant_id]
    /\ IF plant_id \notin DOMAIN plants
       THEN /\ ret' = PlantNotFound(plant_id)
            /\ UNCHANGED <<chain, plants, growth_history>>
       ELSE /\ growth_history' =
                   track_growth(growth_history, plants[plant_id], height, leaf_count, now)
            /\ LET metrics == LastOf(growth_history'[plant_id])
               IN  /\ plants' = [plants EXCEPT ![plant_id].height = N(height),
                                               ![plant_id].health_score = metrics.health_score]
                   /\ chain' = record_plant_data(chain, plant_id,
                                                 GrowthData(height, metrics), now)
                   /\ ret' = [metrics |-> metrics]
    /\ UNCHANGED <<now, pods, condition_history, pc, frame, tampered>>

\* A slip in record_environment: the reading is not put on the ledger.
record_environment_unrecorded(pod_id, conditions) ==
    /\ call' = [op |-> "record_environment", pod_id |-> pod_id]
    /\ IF pod_id \notin DOMAIN pods
       THEN /\ ret' = PodNotFound(pod_id)
            /\ UNCHANGED <<pods, condition_history>>
       ELSE /\ condition_history' = record_conditions(condition_history, pod_id, conditions)
            /\ pods' = [pods EXCEPT ![pod_id].current_conditions = conditions]
            /\ ret' = [result |-> record_conditions_result(conditions)]
    /\ UNCHANGED <<now, chain, plants, growth_history, pc, frame, tampered>>

record_environment(pod_id, conditions) ==
    /\ call' = [op |-> "record_environment", pod_id |-> pod_id]
    /\ IF pod_id \notin DOMAIN pods
       THEN /\ ret' = PodNotFound(pod_id)
            /\ UNCHANGED <<chain, pods, condition_history>>
       ELSE /\ condition_history' = record_conditions(condition_history, pod_id, conditions)
            /\ pods' = [pods EXCEPT ![pod_id].current_conditions = conditions]
            /\ chain' = record_environmental_data(chain, pod_id,
                                                  condition_dump(conditions), now)
            /\ ret' = [result |-> record_conditions_result(conditions)]
    /\ UNCHANGED <<now, plants, growth_history, pc, frame, tampered>>

record_harvest(plant_id, yield_amount, quality_score) ==
    /\ call' = [op |-> "record_harvest", plant_id |-> plant_id]
    /\ IF plant_id \notin DOMAIN plants
       THEN /\ ret' = PlantNotFound(plant_id)
            /\ UNCHANGED <<chain, pods, plants>>
       ELSE /\ plants' = [plants EXCEPT ![plant_id].growth_stage = "harvest"]
            /\ chain' = record_harvest_block(chain, plant_id,
                            HarvestData(plants'[plant_id], yield_amount, quality_score, now),
                            now)
            /\ pods' = HarvestPods(pods, plants'[plant_id])
            /\ ret' = [harvest |-> LastOf(chain').data.data,
                       blockchain_record |-> to_record(LastOf(chain'))]
    /\ UNCHANGED <<now, growth_history, condition_history, pc, frame, tampered>>

\* A slip in a query: growth_history.setdefault(plant_id, []) in place of
\* growth_history.get(plant_id, []).
get_growth_analytics_call_setdefault(plant_id) ==
    /\ call' = [op |-> "get_growth_analytics", plant_id |-> plant_id]
    /\ ret' = [analytics |-> get_growth_analytics(growth_history, plant_id)]
    /\ growth_history' = Put(growth_history, plant_id, GetList(growth_history, plant_id))
    /\ UNCHANGED <<now, chain, pods, plants, condition_history, pc, frame, tampered>>

\* The queries.
get_growth_analytics_call(plant_id) ==
    /\ call' = [op |-> "get_growth_analytics", plant_id |-> plant_id]
    /\ ret' = [analytics |-> get_growth_analytics(growth_history, plant_id)]
    /\ UNCHANGED <<now, chain, pods, plants, growth_history, condition_history,
                   pc, frame, tampered>>

get_blockchain_info ==
    /\ call' = [op |-> "get_blockchain_info"]
    /\ ret' = [info |-> get_chain_info(chain)]
    /\ UNCHANGED <<now, chain, pods, plants, growth_history, condition_history,
                   pc, frame, tampered>>

get_plant_history(plant_id) ==
    /\ call' = [op |-> "get_plant_history", plant_id |-> plant_id]
    /\ ret' = [records |-> get_records_by_id(chain, plant_id)]
    /\ UNCHANGED <<now, chain, pods, plants, growth_history, condition_history,
                   pc, frame, tampered>>

verify_data_integrity ==
    /\ call' = [op |-> "verify_data_integrity"]
    /\ ret' = [valid |-> verify_chain(chain)]
    /\ UNCHANGED <<now, chain, pods, plants, growth_history, condition_history,
                   pc, frame, tampered>>

\* Time passes between two calls.
Tick ==
    /\ now < MaxTime
    /\ now' = now + 1
    /\ UNCHANGED <<chain, pods, plants, growth_history, condition_history,
                   call, ret, pc, frame, tampered>>

----------------------------------------------------------------------------
(* The sequential system: one caller, every handler runs to completion.    *)

EmptyDict == [k \in {} |-> None]

\* GrowPodEmpire.__init__
Init ==
    /\ now = 0
    /\ chain = create_genesis_block(0)
    /\ pods = EmptyDict
    /\ plants = EmptyDict
    /\ growth_history = EmptyDict
    /\ condition_history = EmptyDict
    /\ call = [op |-> "__init__"]
    /\ ret = None
    /\ pc = [t \in Threads |-> "idle"]
    /\ frame = [t \in Threads |-> None]
    /\ tampered = 0

CreatePod == \E id \in CreatedPodIds, name \in PodNames, c \in Capacities : create_pod(id, name, c)
AddPlant ==
    CanAppend /\ \E p \in PlantIds, s \in Strains, id \in PodIds : add_plant(p, s, id)
UpdatePlantStage ==
    CanAppend /\ \E p \in PlantIds, st \in StageInputs : update_plant_stage(p, st)
RecordGrowth ==
    CanAppend /\ \E p \in PlantIds, h \in Heights, l \in LeafCounts : record_growth(p, h, l)
RecordEnvironment ==
    CanAppend /\ \E id \in PodIds : \E c \in Readings(now) : record_environment(id, c)
RecordHarvest ==
    CanAppend /\ \E p \in PlantIds, y \in Yields, q \in Qualities : record_harvest(p, y, q)
GetGrowthAnalytics == \E p \in PlantIds : get_growth_analytics_call(p)
GetPlantHistory == \E p \in PlantIds : get_plant_history(p)

Next ==
    \/ CreatePod
    \/ AddPlant
    \/ UpdatePlantStage
    \/ RecordGrowth
    \/ RecordEnvironment
    \/ RecordHarvest
    \/ GetGrowthAnalytics
    \/ GetPlantHistory
    \/ get_blockchain_info
    \/ verify_data_integrity
    \/ Tick

Spec == Init /\ [][Next]_vars

----------------------------------------------------------------------------
(* Properties of the sequential system.                                    *)

\* A step of Spec that is a call of a handler (every step but Tick is one).
HandlerStep == now' = now

Raised(r, msg) == "raise" \in DOMAIN r /\ r.raise = "ValueError" /\ r.msg = msg

\* C1: after any sequence of sequential appends to a freshly constructed
\* chain (through record_plant_data, record_environmental_data and
\* record_harvest), verify_chain() returns true.
C1_VerifyAfterAppends == verify_chain(chain)

C1_Witness ==
    /\ Len(chain) = 3
    /\ chain[2].data.type = S("environmental_data")
    /\ chain[3].data.type = S("plant_data")
    /\ chain[3].timestamp > chain[2].timestamp
    /\ verify_chain(chain)

\* C3: a freshly constructed chain (no operation called yet) has length 1, its
\* block has block_number 0, previous_hash "0" and the genesis payload, and
\* verify_chain() is true.
C3_GenesisInvariant ==
    call.op = "__init__" =>
        /\ Len(chain) = 1
        /\ chain[1].block_number = 0
        /\ chain[1].previous_hash = S("0")
        /\ chain[1].data = [type |-> S("genesis"), data |-> S("GrowPodEmpire Genesis Block")]
        /\ verify_chain(chain)

C3_Witness == call.op = "__init__" /\ Len(chain) = 1 /\ now = 1

\* C5: in every state reached by sequential appends, every block after the
\* genesis block carries the hash of the block before it as previous_hash and
\* its own list index as block_number.
C5_Linkage ==
    \A i \in 2..Len(chain) :
        /\ chain[i].previous_hash = chain[i - 1].hash
        /\ chain[i].block_number = i - 1

C5_Witness ==
    /\ Len(chain) = 3
    /\ chain[3].block_number = 2
    /\ chain[3].previous_hash = chain[2].hash
    /\ chain[2].previous_hash = chain[1].hash

\* C6: the chain is append-only: no step shortens it, and every block stays
\* at its index with all its fields (so index 0 stays the genesis block).
C6_AppendOnly ==
    [][/\ Len(chain') >= Len(chain)
       /\ \A i \in 1..Len(chain) : chain'[i] = chain[i]]_vars

C6_Witness ==
    /\ Len(chain) = 3
    /\ chain[1] = create_genesis_block(0)[1]
    /\ call.op \in {"get_plant_history", "verify_data_integrity"}

\* C7: add_plant on a pod that already holds capacity-many plants raises the
\* capacity error and leaves the chain, the plants and the pods unchanged.
C7_FullPodRejected ==
    [][(/\ HandlerStep
        /\ call'.op = "add_plant"
        /\ call'.pod_id \in DOMAIN pods
        /\ Len(pods[call'.pod_id].current_plants) >= pods[call'.pod_id].capacity)
       => /\ Raised(ret', "Pod is at full capacity")
          /\ chain' = chain
          /\ plants' = plants
          /\ pods' = pods]_vars

\* Capacity 1: one plant added (chain length 2, verified), the second rejected.
C7_Witness ==
    /\ call.op = "add_plant"
    /\ Raised(ret, "Pod is at full capacity")
    /\ pods["a"].capacity = 1
    /\ Len(pods["a"].current_plants) = 1
    /\ Len(chain) = 2
    /\ verify_chain(chain)

\* One block was appended by this step, carrying the given id and type.
AppendedOne(id, type) ==
    /\ Len(chain') = Len(chain) + 1
    /\ SubSeq(chain', 1, Len(chain)) = chain
    /\ DataGetEquals(chain'[Len(chain')], "id", S(id))
    /\ DataGetEquals(chain'[Len(chain')], "type", S(type))

\* C9: every successful mutating handler appends exactly one block with the
\* id of the plant or pod and the type plant_data, environmental_data or
\* harvest; a query appends none; and so the ledger history of every
\* registered plant is not empty and starts with a plant_data record.
C9_EveryEventRecorded ==
    [][HandlerStep =>
        /\ (call'.op \in {"add_plant", "update_plant_stage", "record_growth"}
                /\ "raise" \notin DOMAIN ret'
            => AppendedOne(call'.plant_id, "plant_data"))
        /\ (call'.op = "record_environment" /\ "raise" \notin DOMAIN ret'
            => AppendedOne(call'.pod_id, "environmental_data"))
        /\ (call'.op = "record_harvest" /\ "raise" \notin DOMAIN ret'
            => AppendedOne(call'.plant_id, "harvest"))
        /\ (call'.op \in {"get_growth_analytics", "get_blockchain_info",
                          "get_plant_history", "verify_data_integrity"}
            => chain' = chain)
        /\ \A p \in DOMAIN plants' :
              /\ Len(get_records_by_id(chain', p)) >= 1
              /\ get_records_by_id(chain', p)[1].data.type = S("plant_data")]_vars

\* C10: a mutating handler called with an unknown pod or plant id raises the
\* not-found error and changes neither the chain, nor the registries, nor the
\* analytics histories.
C10_UnknownKeyRejected ==
    [][HandlerStep =>
        /\ (call'.op \in {"add_plant", "record_environment"}
                /\ call'.pod_id \notin DOMAIN pods
            => /\ Raised(ret', "Pod not found")
               /\ UNCHANGED <<chain, pods, plants, growth_history, condition_history>>)
        /\ (call'.op \in {"update_plant_stage", "record_growth", "record_harvest"}
                /\ call'.plant_id \notin DOMAIN plants
            => /\ Raised(ret', "Plant not found")
               /\ UNCHANGED <<chain, pods, plants, growth_history,
                              condition_history>>)]_vars

C10_Witness ==
    /\ call.op = "record_growth"
    /\ Raised(ret, "Plant not found")
    /\ call.plant_id \notin DOMAIN plants
    /\ DOMAIN plants # {}
    /\ Len(chain) = 2

----------------------------------------------------------------------------
(* The ledger alone, with an editor of stored payloads: blocks are appended *)
(* through the public methods of CultivationBlockchain and, once, the data *)
(* of one stored block is replaced while its stored hash is left as it is. *)

\* Dicts a caller hands to add_block directly.
DirectPayloads == {[type |-> S("note"), id |-> S("a"), data |-> S("watered")]}

\* Edits of a stored payload: its data replaced, and a datetime inside it
\* replaced by the string isoformat() renders it as.
EditedPayloads(data) ==
    {[data EXCEPT !.data = S("edited")]}
    \cup (IF IsDict(data.data) /\ "timestamp" \in DOMAIN data.data
          THEN {[data EXCEPT !.data.timestamp = _make_serializable(@)]}
          ELSE {})

ChainAddBlock ==
    /\ CanAppend
    /\ \E d \in DirectPayloads : chain' = add_block(chain, d, now)
    /\ call' = [op |-> "add_block"]
    /\ ret' = [record |-> to_record(LastOf(chain'))]
    /\ UNCHANGED <<now, pods, plants, growth_history, condition_history,
                   pc, frame, tampered>>

ChainRecordPlantData ==
    /\ CanAppend
    /\ \E p \in PlantIds, st \in Strains, id \in CreatedPodIds :
          chain' = record_plant_data(chain, p, PlantedData(st, id), now)
    /\ call' = [op |-> "record_plant_data"]
    /\ ret' = [record |-> to_record(LastOf(chain'))]
    /\ UNCHANGED <<now, pods, plants, growth_history, condition_history,
                   pc, frame, tampered>>

ChainRecordEnvironmentalData ==
    /\ CanAppend
    /\ \E id \in CreatedPodIds : \E c \in Readings(now) :
          chain' = record_environmental_data(chain, id, condition_dump(c), now)
    /\ call' = [op |-> "record_environmental_data"]
    /\ ret' = [record |-> to_record(LastOf(chain'))]
    /\ UNCHANGED <<now, pods, plants, growth_history, condition_history,
                   pc, frame, tampered>>

ChainRecordHarvest ==
    /\ CanAppend
    /\ \E p \in PlantIds, st \in Strains, y \in Yields, q \in Qualities :
          chain' = record_harvest_block(chain, p,
                       HarvestData(NewPlant(p, st, "a", 0), y, q, now), now)
    /\ call' = [op |-> "record_harvest"]
    /\ ret' = [record |-> to_record(LastOf(chain'))]
    /\ UNCHANGED <<now, pods, plants, growth_history, condition_history,
                   pc, frame, tampered>>

\* Somebody with access to the process edits chain[i].data in place.
Tamper ==
    /\ tampered = 0
    /\ \E i \in 1..Len(chain) : \E d \in EditedPayloads(chain[i].data) :
          /\ d # chain[i].data
          /\ chain' = [chain EXCEPT ![i].data = d]
          /\ tampered' = i
    /\ UNCHANGED <<now, pods, plants, growth_history, condition_history,
                   call, ret, pc, frame>>

NextTamper ==
    \/ ChainAddBlock
    \/ ChainRecordPlantData
    \/ ChainRecordEnvironmentalData
    \/ ChainRecordHarvest
    \/ Tamper
    \/ Tick

SpecTamper == Init /\ [][NextTamper]_vars

\* C2: once the stored payload of any block of the chain has been changed
\* without updating its stored hash, verify_chain() returns false.
C2_TamperEvident == tampered # 0 => ~verify_chain(chain)

----------------------------------------------------------------------------
(* add_block called by several threads at once, one call each, statement   *)
(* by statement.  CultivationBlockchain holds no lock.                     *)

ThreadPayloads == {[type |-> S("note"), id |-> S("a"), data |-> S("watered")],
                   [type |-> S("note"), id |-> S("c"), data |-> S("pruned")]}

\* previous_block = self.get_latest_block()
ReadLatest(t) ==
    /\ pc[t] = "idle"
    /\ \E d \in ThreadPayloads :
          frame' = [frame EXCEPT ![t] = [data |-> d,
                                         previous_block |-> get_latest_block(chain)]]
    /\ pc' = [pc EXCEPT ![t] = "read_len"]
    /\ UNCHANGED <<now, chain, pods, plants, growth_history, condition_history,
                   call, ret, tampered>>

\* block_number=len(self.chain)
ReadLen(t) ==
    /\ pc[t] = "read_len"
    /\ frame' = [frame EXCEPT ![t] = [data |-> frame[t].data,
                                      previous_block |-> frame[t].previous_block,
                                      block_number |-> NewBlockNumber(chain)]]
    /\ pc' = [pc EXCEPT ![t] = "construct"]
    /\ UNCHANGED <<now, chain, pods, plants, growth_history, condition_history,
                   call, ret, tampered>>

\* new_block = Block(block_number, data, previous_hash=previous_block.hash)
Construct(t) ==
    /\ pc[t] = "construct"
    /\ frame' = [frame EXCEPT ![t] =
                    [new_block |-> Block(frame[t].block_number, frame[t].data,
                                         frame[t].previous_block.hash, now)]]
    /\ pc' = [pc EXCEPT ![t] = "push"]
    /\ UNCHANGED <<now, chain, pods, plants, growth_history, condition_history,
                   call, ret, tampered>>

\* self.chain.append(new_block); return new_block.to_record()
Push(t) ==
    /\ pc[t] = "push"
    /\ chain' = Append(chain, frame[t].new_block)
    /\ frame' = [frame EXCEPT ![t] = [returned |-> to_record(frame[t].new_block)]]
    /\ pc' = [pc EXCEPT ![t] = "done"]
    /\ UNCHANGED <<now, pods, plants, growth_history, condition_history,
                   call, ret, tampered>>

NextThreads ==
    \E t \in Threads :
        \/ ReadLatest(t)
        \/ ReadLen(t)
        \/ Construct(t)
        \/ Push(t)

SpecThreads == Init /\ [][NextThreads]_vars

AllDone == \A t \in Threads : pc[t] = "done"

\* C4: when the concurrent add_block calls have all returned, the chain holds
\* one block per call after the genesis block, block numbers increase strictly
\* along the chain, no two blocks were built from the same previous_hash and
\* block_number, and verify_chain() is true.
C4_AppendAtomicity ==
    AllDone =>
        /\ Len(chain) = NThreads + 1
        /\ \A i, j \in 1..Len(chain) :
              i < j => chain[i].block_number < chain[j].block_number
        /\ \A i, j \in 2..Len(chain) :
              i # j => \/ chain[i].block_number # chain[j].block_number
                       \/ chain[i].previous_hash # chain[j].previous_hash
        /\ verify_chain(chain)

----------------------------------------------------------------------------
(* The coordinator statement by statement: one caller (thread Main), each  *)
(* mutating handler run as the sequence of its state-changing statements.  *)
(* The clock is read as one instant per handler.                           *)

Main == CHOOSE t \in Threads : \A u \in Threads : t <= u

AnalyticsOps == {"record_growth", "record_environment"}

\* A handler with its statements swapped: the block appended before the
\* registry is written.
HandlerSteps_ledger_first(op) ==
    CASE op = "add_plant" -> <<"append_block", "write_entity">>
      [] op = "update_plant_stage" -> <<"append_block", "write_entity">>
      [] op = "record_growth" -> <<"run_analytics", "write_entity", "append_block">>
      [] op = "record_environment" -> <<"run_analytics", "write_entity", "append_block">>
      [] op = "record_harvest" -> <<"write_entity", "append_block", "release_pod">>

\* The state-changing statements of each handler, in the order of its code,
\* after the not-found and capacity checks.
HandlerSteps(op) ==
    CASE op = "add_plant" -> <<"write_entity", "append_block">>
      [] op = "update_plant_stage" -> <<"write_entity", "append_block">>
      [] op = "record_growth" -> <<"run_analytics", "write_entity", "append_block">>
      [] op = "record_environment" -> <<"run_analytics", "write_entity", "append_block">>
      [] op = "record_harvest" -> <<"write_entity", "append_block", "release_pod">>

Running(op, step) ==
    /\ pc[Main] = step
    /\ frame[Main].op = op

\* Enter a handler whose checks passed: its arguments and locals in args.
Enter(op, args) ==
    /\ pc' = [pc EXCEPT ![Main] = HandlerSteps(op)[1]]
    /\ frame' = [frame EXCEPT ![Main] = [op |-> op, args |-> args, k |-> 1, done |-> {}]]
    /\ ret' = None

\* Leave the statement at pc; the handler returns result after its last one.
Leave(result) ==
    LET f == frame[Main]
        steps == HandlerSteps(f.op)
    IN  IF f.k = Len(steps)
        THEN /\ pc' = [pc EXCEPT ![Main] = "idle"]
             /\ frame' = [frame EXCEPT ![Main] = None]
             /\ ret' = result
        ELSE /\ pc' = [pc EXCEPT ![Main] = steps[f.k + 1]]
             /\ frame' = [frame EXCEPT ![Main] =
                             [f EXCEPT !.k = f.k + 1, !.done = f.done \cup {pc[Main]}]]
             /\ ret' = ret

StepCreatePod ==
    /\ pc[Main] = "idle"
    /\ \E id \in CreatedPodIds, name \in PodNames, c \in Capacities :
          /\ call' = [op |-> "create_pod", pod_id |-> id]
          /\ pods' = Put(pods, id, NewPod(id, name, c))
          /\ ret' = [pod |-> pods'[id]]
    /\ UNCHANGED <<now, chain, plants, growth_history, condition_history,
                   pc, frame, tampered>>

StepTick == pc[Main] = "idle" /\ Tick

\* The checks at the head of each handler.
BeginAddPlant ==
    /\ pc[Main] = "idle"
    /\ \E p \in PlantIds, st \in Strains, id \in PodIds :
          /\ call' = [op |-> "add_plant", plant_id |-> p, pod_id |-> id]
          /\ IF id \notin DOMAIN pods
             THEN ret' = PodNotFound(id) /\ UNCHANGED <<pc, frame>>
             ELSE IF PodIsFull(pods[id])
             THEN ret' = PodFull(id) /\ UNCHANGED <<pc, frame>>
             ELSE CanAppend /\ Enter("add_plant", [plant_id |-> p, strain |-> st, pod_id |-> id])
    /\ UNCHANGED <<now, chain, pods, plants, growth_history, condition_history, tampered>>

BeginUpdatePlantStage ==
    /\ pc[Main] = "idle"
    /\ \E p \in PlantIds, stage \in StageInputs :
          /\ call' = [op |-> "update_plant_stage", plant_id |-> p]
          /\ IF p \notin DOMAIN plants
             THEN ret' = PlantNotFound(p) /\ UNCHANGED <<pc, frame>>
             ELSE CanAppend /\ Enter("update_plant_stage",
                                     [plant_id |-> p, stage |-> stage,
                                      old_stage |-> plants[p].growth_stage])
    /\ UNCHANGED <<now, chain, pods, plants, growth_history, condition_history, tampered>>

BeginRecordGrowth ==
    /\ pc[Main] = "idle"
    /\ \E p \in PlantIds, h \in Heights, l \in LeafCounts :
          /\ call' = [op |-> "record_growth", plant_id |-> p]
          /\ IF p \notin DOMAIN plants
             THEN ret' = PlantNotFound(p) /\ UNCHANGED <<pc, frame>>
             ELSE CanAppend /\ Enter("record_growth",
                                     [plant_id |-> p, height |-> h, leaf_count |-> l])
    /\ UNCHANGED <<now, chain, pods, plants, growth_history, condition_history, tampered>>

BeginRecordEnvironment ==
    /\ pc[Main] = "idle"
    /\ \E id \in PodIds : \E c \in Readings(now) :
          /\ call' = [op |-> "record_environment", pod_id |-> id]
          /\ IF id \notin DOMAIN pods
             THEN ret' = PodNotFound(id) /\ UNCHANGED <<pc, frame>>
             ELSE CanAppend /\ Enter("record_environment",
                                     [pod_id |-> id, conditions |-> c])
    /\ UNCHANGED <<now, chain, pods, plants, growth_history, condition_history, tampered>>

BeginRecordHarvest ==
    /\ pc[Main] = "idle"
    /\ \E p \in PlantIds, y \in Yields, q \in Qualities :
          /\ call' = [op |-> "record_harvest", plant_id |-> p]
          /\ IF p \notin DOMAIN plants
             THEN ret' = PlantNotFound(p) /\ UNCHANGED <<pc, frame>>
             ELSE CanAppend /\ Enter("record_harvest",
                                     [plant_id |-> p, yield_amount |-> y,
                                      quality_score |-> q])
    /\ UNCHANGED <<now, chain, pods, plants, growth_history, condition_history, tampered>>

\* add_plant
AddPlantWrite ==
    /\ Running("add_plant", "write_entity")
    /\ LET a == frame[Main].args
       IN  /\ plants' = AddPlantPlants(plants, a.plant_id, a.strain, a.pod_id, now)
           /\ pods' = AddPlantPods(pods, a.plant_id, a.pod_id)
           /\ Leave([plant |-> plants'[a.plant_id]])
    /\ UNCHANGED <<now, chain, growth_history, condition_history, call, tampered>>

AddPlantAppend ==
    /\ Running("add_plant", "append_block")
    /\ LET a == frame[Main].args
       IN  /\ chain' = record_plant_data(chain, a.plant_id,
                                         PlantedData(a.strain, a.pod_id), now)
           /\ Leave([plant |-> plants[a.plant_id]])
    /\ UNCHANGED <<now, pods, plants, growth_history, condition_history, call, tampered>>

\* update_plant_stage
UpdateStageWrite ==
    /\ Running("update_plant_stage", "write_entity")
    /\ LET a == frame[Main].args
       IN  /\ plants' = [plants EXCEPT ![a.plant_id].growth_stage = a.stage]
           /\ Leave([plant |-> plants'[a.plant_id]])
    /\ UNCHANGED <<now, chain, pods, growth_history, condition_history, call, tampered>>

UpdateStageAppend ==
    /\ Running("update_plant_stage", "append_block")
    /\ LET a == frame[Main].args
       IN  /\ chain' = record_plant_data(chain, a.plant_id,
                                         StageChangeData(a.old_stage, a.stage), now)
           /\ Leave([plant |-> plants[a.plant_id]])
    /\ UNCHANGED <<now, pods, plants, growth_history, condition_history, call, tampered>>

\* record_growth
RecordGrowthAnalytics ==
    /\ Running("record_growth", "run_analytics")
    /\ LET a == frame[Main].args
       IN  /\ growth_history' = track_growth(growth_history, plants[a.plant_id],
                                             a.height, a.leaf_count, now)
           /\ Leave([metrics |-> LastOf(growth_history'[a.plant_id])])
    /\ UNCHANGED <<now, chain, pods, plants, condition_history, call, tampered>>

RecordGrowthWrite ==
    /\ Running("record_growth", "write_entity")
    /\ LET a == frame[Main].args
           metrics == LastOf(growth_history[a.plant_id])
       IN  /\ plants' = [plants EXCEPT ![a.plant_id].height = N(a.height),
                                       ![a.plant_id].health_score = metrics.health_score]
           /\ Leave([metrics |-> metrics])
    /\ UNCHANGED <<now, chain, pods, growth_history, condition_history, call, tampered>>

RecordGrowthAppend ==
    /\ Running("record_growth", "append_block")
    /\ LET a == frame[Main].args
           metrics == LastOf(growth_history[a.plant_id])
       IN  /\ chain' = record_plant_data(chain, a.plant_id,
                                         GrowthData(a.height, metrics), now)
           /\ Leave([metrics |-> metrics])
    /\ UNCHANGED <<now, pods, plants, growth_history, condition_history, call, tampered>>

\* record_environment
RecordEnvironmentAnalytics ==
    /\ Running("record_environment", "run_analytics")
    /\ LET a == frame[Main].args
       IN  /\ condition_history' =
                  record_conditions(condition_history, a.pod_id, a.conditions)
           /\ Leave([result |-> record_conditions_result(a.conditions)])
    /\ UNCHANGED <<now, chain, pods, plants, growth_history, call, tampered>>

RecordEnvironmentWrite ==
    /\ Running("record_environment", "write_entity")
    /\ LET a == frame[Main].args
       IN  /\ pods' = [pods EXCEPT ![a.pod_id].current_conditions = a.conditions]
           /\ Leave([result |-> record_conditions_result(a.conditions)])
    /\ UNCHANGED <<now, chain, plants, growth_history, condition_history, call, tampered>>

RecordEnvironmentAppend ==
    /\ Running("record_environment", "append_block")
    /\ LET a == frame[Main].args
       IN  /\ chain' = record_environmental_data(chain, a.pod_id,
                                                 condition_dump(a.conditions), now)
           /\ Leave([result |-> record_conditions_result(a.conditions)])
    /\ UNCHANGED <<now, pods, plants, growth_history, condition_history, call, tampered>>

\* record_harvest
RecordHarvestWrite ==
    /\ Running("record_harvest", "write_entity")
    /\ LET a == frame[Main].args
       IN  /\ plants' = [plants EXCEPT ![a.plant_id].growth_stage = "harvest"]
           /\ Leave(None)
    /\ UNCHANGED <<now, chain, pods, growth_history, condition_history, call, tampered>>

RecordHarvestAppend ==
    /\ Running("record_harvest", "append_block")
    /\ LET a == frame[Main].args
       IN  /\ chain' = record_harvest_block(chain, a.plant_id,
                           HarvestData(plants[a.plant_id], a.yield_amount,
                                       a.quality_score, now), now)
           /\ Leave(None)
    /\ UNCHANGED <<now, pods, plants, growth_history, condition_history, call, tampered>>

RecordHarvestRelease ==
    /\ Running("record_harvest", "release_pod")
    /\ LET a == frame[Main].args
       IN  /\ pods' = HarvestPods(pods, plants[a.plant_id])
           /\ Leave([harvest |-> LastOf(chain).data.data,
                     blockchain_record |-> to_record(LastOf(chain))])
    /\ UNCHANGED <<now, chain, plants, growth_history, condition_history, call, tampered>>

NextSteps ==
    \/ StepCreatePod
    \/ StepTick
    \/ BeginAddPlant
    \/ BeginUpdatePlantStage
    \/ BeginRecordGrowth
    \/ BeginRecordEnvironment
    \/ BeginRecordHarvest
    \/ AddPlantWrite
    \/ AddPlantAppend
    \/ UpdateStageWrite
    \/ UpdateStageAppend
    \/ RecordGrowthAnalytics
    \/ RecordGrowthWrite
    \/ RecordGrowthAppend
    \/ RecordEnvironmentAnalytics
    \/ RecordEnvironmentWrite
    \/ RecordEnvironmentAppend
    \/ RecordHarvestWrite
    \/ RecordHarvestAppend
    \/ RecordHarvestRelease

SpecSteps == Init /\ [][NextSteps]_vars

InHandler == pc[Main] # "idle"
EntityWritten == plants' # plants \/ pods' # pods
BlockAppended == chain' # chain
StepsDone == frame[Main].done

\* C8: in every mutating handler the analytics computation (if any) comes
\* first, then the append of the fact to the chain, and only after that the
\* update of the in-memory entity: no plant or pod field is changed before
\* the event's block is in the chain.
C8_LedgerBeforeEntity ==
    [][InHandler =>
        /\ (BlockAppended /\ frame[Main].op \in AnalyticsOps
            => "run_analytics" \in StepsDone)
        /\ (EntityWritten => "append_block" \in StepsDone)]_vars

\* C8 as the code has it: the analytics computation (if any) first, then the
\* update of the plant or pod, and only after that the append of the block;
\* record_harvest removes the plant from its pod after the append.
C8_EntityBeforeLedger ==
    [][InHandler =>
        /\ (EntityWritten /\ frame[Main].op \in AnalyticsOps
            => "run_analytics" \in StepsDone)
        /\ (BlockAppended =>
               /\ "write_entity" \in StepsDone
               /\ frame[Main].op \in AnalyticsOps => "run_analytics" \in StepsDone)
        /\ (pc[Main] = "release_pod" => "append_block" \in StepsDone)]_vars

C8_Witness ==
    /\ pc[Main] = "release_pod"
    /\ frame[Main].op = "record_harvest"
    /\ frame[Main].done = {"write_entity", "append_block"}
    /\ plants[frame[Main].args.plant_id].growth_stage = "harvest"
    /\ LastOf(chain).data.type = S("harvest")
    /\ InSeq(frame[Main].args.plant_id, pods["a"].current_plants)

----------------------------------------------------------------------------
(* Values that enter the ledger.                                           *)

\* A payload holds nan or inf somewhere.
RECURSIVE HasNonFinite(_)
HasNonFinite(obj) ==
    IF IsLeaf(obj) THEN DOMAIN obj = {"nonfinite"}
    ELSE \E k \in DOMAIN obj : HasNonFinite(obj[k])

\* C11: no block whose payload holds a non-finite number (nan, inf) is ever in
\* the chain: a handler given such a value rejects it before add_block.
C11_NonFiniteRejected == \A i \in DOMAIN chain : ~HasNonFinite(chain[i].data)

----------------------------------------------------------------------------
(* Growth measurements: one pod of capacity 1 created once, one plant, and *)
(* record_growth called at most MaxMeasurements times while the clock runs *)
(* up to MaxDays.                                                          *)

MaxMeasurements == 3
MaxDays == 2

GrowthCreatePod == pods = EmptyDict /\ create_pod("a", "pod", 1)
GrowthAddPlant == \E s \in Strains : add_plant("c", s, "a")
GrowthRecord ==
    /\ Len(GetList(growth_history, "c")) < MaxMeasurements
    /\ \E h \in Heights, l \in LeafCounts : record_growth("c", h, l)
GrowthAnalytics == get_growth_analytics_call("c")
GrowthElapse ==
    /\ now < MaxDays
    /\ now' = now + 1
    /\ UNCHANGED <<chain, pods, plants, growth_history, condition_history,
                   call, ret, pc, frame, tampered>>

NextGrowth ==
    \/ GrowthCreatePod
    \/ GrowthAddPlant
    \/ GrowthRecord
    \/ GrowthAnalytics
    \/ GrowthElapse

SpecGrowth == Init /\ [][NextGrowth]_vars

\* C12: the first sample of a plant has no growth rate; a later sample has the
\* rate (height - last height) / elapsed days when the elapsed time is
\* positive, which is positive when the height grew, and no rate when the
\* elapsed time is zero or negative.
C12_GrowthRate ==
    \A p \in DOMAIN growth_history : \A i \in DOMAIN growth_history[p] :
        LET h == growth_history[p]
            rate == h[i].growth_rate
        IN  IF i = 1 THEN rate = None
            ELSE IF h[i].timestamp - h[i - 1].timestamp > 0
            THEN /\ rate # None
                 /\ Num(rate) * (h[i].timestamp - h[i - 1].timestamp)
                        = (h[i].height - h[i - 1].height) * Den(rate)
                 /\ Den(rate) > 0
                 /\ (h[i].height > h[i - 1].height => Num(rate) > 0)
            ELSE rate = None

\* 10 cm, two days later 15 cm (2.5 cm per day), then 10 cm at once (no rate).
C12_Witness ==
    /\ "c" \in DOMAIN growth_history
    /\ Len(growth_history["c"]) = 3
    /\ growth_history["c"][1].growth_rate = None
    /\ growth_history["c"][2].growth_rate = Frac(5, 2)
    /\ growth_history["c"][3].timestamp = growth_history["c"][2].timestamp
    /\ growth_history["c"][3].growth_rate = None

----------------------------------------------------------------------------
(* The health score over a long run of measurements: the pod and the plant *)
(* of the growth measurements, record_growth called at most MaxSamples     *)
(* times, and the clock read at most one day after the last ledger event.  *)

MaxSamples == 7

HealthRecord ==
    /\ Len(GetList(growth_history, "c")) < MaxSamples
    /\ \E h \in Heights, l \in LeafCounts : record_growth("c", h, l)
HealthElapse ==
    /\ now = LastOf(chain).timestamp
    /\ now' = now + 1
    /\ UNCHANGED <<chain, pods, plants, growth_history, condition_history,
                   call, ret, pc, frame, tampered>>

NextHealth ==
    \/ GrowthCreatePod
    \/ GrowthAddPlant
    \/ HealthRecord
    \/ HealthElapse

SpecHealth == Init /\ [][NextHealth]_vars

\* C13: the health score of every plant and of every recorded sample lies
\* between 50 and 100, whatever the measurements were.
C13_HealthBounds ==
    /\ \A p \in DOMAIN plants :
          plants[p].health_score >= 50 /\ plants[p].health_score <= 100
    /\ \A p \in DOMAIN growth_history : \A i \in DOMAIN growth_history[p] :
          /\ growth_history[p][i].health_score >= 50
          /\ growth_history[p][i].health_score <= 100

\* Six measurements in a row without growth: the score fell to 50 with the
\* fifth and the sixth, again below half the expected rate, left it at 50.
C13_Witness ==
    /\ "c" \in DOMAIN growth_history
    /\ Len(growth_history["c"]) = 7
    /\ growth_history["c"][6].health_score = 50
    /\ growth_history["c"][7].growth_rate = Frac(0, 1)
    /\ growth_history["c"][7].health_score = 50
    /\ plants["c"].health_score = 50

----------------------------------------------------------------------------
(* GrowthTracker alone: track_growth applied once to a tracker that holds  *)
(* the samples of up to MaxHistory earlier calls, made zero or one day     *)
(* apart for a plant in the seed stage.                                    *)

MaxHistory == 5

Gaps == {0, 1}

\* Plant(id="c", strain="og", pod_id="a", growth_stage=stage)
PlantAt(stage) == [NewPlant("c", "og", "a", 0) EXCEPT !.growth_stage = stage]

\* The tracker after track_growth was called for each <<height, gap>> of
\* inputs in turn, gap days after the call before it.
RECURSIVE TrackAll(_, _, _)
TrackAll(gh, inputs, t) ==
    IF inputs = <<>> THEN gh
    ELSE TrackAll(track_growth(gh, PlantAt("seed"), Head(inputs)[1], None,
                               t + Head(inputs)[2]),
                  Tail(inputs), t + Head(inputs)[2])

InitTracker ==
    /\ \E k \in 0..MaxHistory : \E inputs \in [1..k -> Heights \X Gaps] :
          /\ growth_history = TrackAll(EmptyDict, inputs, 0)
          /\ now = IF k = 0 THEN 0 ELSE LastOf(growth_history["c"]).timestamp
    /\ chain = create_genesis_block(0)
    /\ pods = EmptyDict
    /\ plants = EmptyDict
    /\ condition_history = EmptyDict
    /\ call = [op |-> "__init__"]
    /\ ret = None
    /\ pc = [t \in Threads |-> "idle"]
    /\ frame = [t \in Threads |-> None]
    /\ tampered = 0

TrackerTrack ==
    /\ call.op = "__init__"
    /\ \E stage \in Stages, h \in Heights, l \in LeafCounts :
          /\ call' = [op |-> "track_growth", stage |-> stage,
                      history |-> GetList(growth_history, "c")]
          /\ growth_history' = track_growth(growth_history, PlantAt(stage), h, l, now)
          /\ ret' = [metrics |-> LastOf(growth_history'["c"])]
    /\ UNCHANGED <<now, chain, pods, plants, condition_history, pc, frame, tampered>>

NextTracker == TrackerTrack \/ Tick

SpecTracker == InitTracker /\ [][NextTracker]_vars

\* The days between the call and the date it predicted.
PredictedDays == ret.metrics.predicted_harvest_date.datetime - ret.metrics.timestamp

\* C14: with fewer than 4 prior samples the predicted harvest date is now plus
\* the durations of the stages from the plant's stage up to harvest: 114 days
\* from seed, 111 from germination, 104 from seedling, 90 from vegetative, 60
\* from flowering and 0 from harvest, a number that never grows with the stage.
C14_UnscaledPrediction ==
    (call.op = "track_growth" /\ Len(call.history) < 4) =>
        /\ PredictedDays =
              (CASE call.stage = "seed" -> 114
                 [] call.stage = "germination" -> 111
                 [] call.stage = "seedling" -> 104
                 [] call.stage = "vegetative" -> 90
                 [] call.stage = "flowering" -> 60
                 [] call.stage = "harvest" -> 0)
        /\ \A i \in 1..(Len(GrowthStages) - 1) :
              remaining_days(GrowthStages[i]) >= remaining_days(GrowthStages[i + 1])

C14_Witness ==
    /\ call.op = "track_growth"
    /\ Len(call.history) = 3
    /\ call.stage = "vegetative"
    /\ call.history[3].growth_rate = Frac(5, 1)
    /\ PredictedDays = 90

\* The rates of the last 5 prior samples that are defined.
DefinedRates(history) ==
    LET sel == SelectSeq(LastN(history, 5), LAMBDA m : m.growth_rate # None)
    IN  [i \in 1..Len(sel) |-> sel[i].growth_rate]

\* C15: with 4 or more prior samples the remaining days are multiplied by
\* expected rate / mean rate, the mean being taken over the defined rates of
\* the last 5 prior samples (a rate of 0 counts), exactly when that mean is
\* positive; otherwise the unscaled number of days is predicted.
C15_ScaledPrediction ==
    (call.op = "track_growth" /\ Len(call.history) >= 4) =>
        LET rates == DefinedRates(call.history)
            mean == np_mean(rates)
            expected == stage_growth_rates(call.stage)
            remaining == remaining_days(call.stage)
        IN  PredictedDays =
                IF rates # <<>> /\ Num(mean) > 0
                THEN (remaining * Num(expected) * Den(mean)) \div (Den(expected) * Num(mean))
                ELSE remaining

----------------------------------------------------------------------------
(* Growth analytics, over the growth measurements (SpecGrowth).            *)

\* The number of successful record_growth calls for a plant, read from the
\* ledger (each one appended a growth_measurement block).
MeasurementsOf(plant_id) ==
    Cardinality({i \in DOMAIN chain :
                    /\ chain[i].data.type = S("plant_data")
                    /\ chain[i].data.id = S(plant_id)
                    /\ chain[i].data.data.action = S("growth_measurement")})

\* C16: get_growth_analytics answers "no data" for a plant without samples;
\* otherwise total_measurements is the number of measurements made,
\* current_height the last height, height_gained last minus first height (0
\* with one sample), average_growth_rate the mean of the defined rates (0 if
\* there is none) and current_health_score the last sample's score.
C16_GrowthAnalytics ==
    call.op = "get_growth_analytics" =>
        LET history == GetList(growth_history, call.plant_id)
            a == ret.analytics
            defined == {i \in DOMAIN history : history[i].growth_rate # None}
            rates == [i \in 1..Len(history) |->
                         IF i \in defined THEN history[i].growth_rate ELSE Frac(0, 1)]
        IN  IF history = <<>>
            THEN a = [error |-> "No growth data available"]
            ELSE /\ a.total_measurements = MeasurementsOf(call.plant_id)
                 /\ a.current_height = history[Len(history)].height
                 /\ a.height_gained = IF Len(history) < 2 THEN 0
                                      ELSE history[Len(history)].height - history[1].height
                 /\ IF defined = {} THEN a.average_growth_rate = Frac(0, 1)
                    ELSE FracScale(a.average_growth_rate, Cardinality(defined), 1)
                             = FracSum(rates)
                 /\ a.current_health_score = history[Len(history)].health_score

\* 10 cm, 10 cm a day later (rate 0), 15 cm a day later (rate 5): mean 2.5.
C16_Witness ==
    /\ call.op = "get_growth_analytics"
    /\ "error" \notin DOMAIN ret.analytics
    /\ ret.analytics.total_measurements = 3
    /\ ret.analytics.height_gained = 5
    /\ growth_history["c"][2].growth_rate = Frac(0, 1)
    /\ ret.analytics.average_growth_rate = Frac(5, 2)

----------------------------------------------------------------------------
(* EnvironmentalMonitor alone.  The caller builds each EnvironmentalCondition *)
(* and may give it any timestamp.                                          *)

\* EnvironmentalMonitor.record_conditions, from call to return.
monitor_record(pod_id, conditions) ==
    /\ call' = [op |-> "record_conditions", pod_id |-> pod_id, conditions |-> conditions]
    /\ condition_history' = record_conditions(condition_history, pod_id, conditions)
    /\ ret' = [result |-> record_conditions_result(conditions)]
    /\ UNCHANGED <<now, chain, pods, plants, growth_history, pc, frame, tampered>>

\* A slip in get_environment_analytics: condition_history.setdefault(pod_id, [])
\* in place of condition_history.get(pod_id, []).
monitor_analytics_setdefault(pod_id, hours) ==
    /\ call' = [op |-> "get_environment_analytics", pod_id |-> pod_id, hours |-> hours,
                at |-> now]
    /\ ret' = [analytics |-> get_environment_analytics(condition_history, pod_id, hours, now)]
    /\ condition_history' = Put(condition_history, pod_id, GetList(condition_history, pod_id))
    /\ UNCHANGED <<now, chain, pods, plants, growth_history, pc, frame, tampered>>

\* EnvironmentalMonitor.get_environment_analytics, from call to return.
monitor_analytics(pod_id, hours) ==
    /\ call' = [op |-> "get_environment_analytics", pod_id |-> pod_id, hours |-> hours,
                at |-> now]
    /\ ret' = [analytics |-> get_environment_analytics(condition_history, pod_id, hours, now)]
    /\ UNCHANGED <<now, chain, pods, plants, growth_history, condition_history,
                   pc, frame, tampered>>

HoursInputs == {0, 24}

MonitorAnalytics == \E id \in CreatedPodIds, hours \in HoursInputs : monitor_analytics(id, hours)

\* Classification: one condition recorded in a monitor without history.  The
\* values of a parameter, in tenths, sit on and next to its four thresholds.
ThresholdValues(param) ==
    {LowBand(param) - 1, LowBand(param), 10 * optimal_ranges(param)[1] - 1,
     10 * optimal_ranges(param)[1], 10 * optimal_ranges(param)[2],
     10 * optimal_ranges(param)[2] + 1, HighBand(param), HighBand(param) + 1}

\* A condition inside every optimal range.
Baseline(t) ==
    [timestamp |-> t, temperature |-> 245, humidity |-> 550, co2_level |-> 12000,
     light_intensity |-> 6000, ph_level |-> 65]

\* The baseline with one parameter on a threshold, or with all the parameters
\* of a set just above their optimal range, or far above their tolerance band.
ClassifyReadings(t) ==
    UNION {{[Baseline(t) EXCEPT ![param] = v] : v \in ThresholdValues(param)} :
           param \in ParameterSet}
    \cup {[q \in DOMAIN Baseline(t) |->
              IF q \in ps THEN 10 * optimal_ranges(q)[2] + 1 ELSE Baseline(t)[q]] :
          ps \in SUBSET ParameterSet}
    \cup {[q \in DOMAIN Baseline(t) |->
              IF q \in ps THEN 20 * optimal_ranges(q)[2] ELSE Baseline(t)[q]] :
          ps \in SUBSET ParameterSet}

ClassifyRecord ==
    /\ condition_history = EmptyDict
    /\ \E id \in CreatedPodIds, t \in Times : \E c \in ClassifyReadings(t) :
          monitor_record(id, c)

NextClassify == ClassifyRecord \/ MonitorAnalytics \/ Tick

SpecClassify == Init /\ [][NextClassify]_vars

\* C17: _analyze_conditions gives each of the five configured parameters, and
\* nothing else (not the timestamp), exactly one status: optimal iff the value
\* is within [min, max], else acceptable iff it is within [0.9 min, 1.1 max],
\* else critical.
C17_Classification ==
    call.op = "record_conditions" =>
        LET analysis == ret.result.analysis
        IN  /\ DOMAIN analysis = {"temperature", "humidity", "co2_level",
                                  "light_intensity", "ph_level"}
            /\ \A q \in DOMAIN analysis :
                  LET v == call.conditions[q]
                      InRange == 10 * optimal_ranges(q)[1] <= v
                                     /\ v <= 10 * optimal_ranges(q)[2]
                      InBand == 9 * optimal_ranges(q)[1] <= v
                                    /\ v <= 11 * optimal_ranges(q)[2]
                  IN  /\ analysis[q].status \in {"optimal", "acceptable", "critical"}
                      /\ analysis[q].status = "optimal" <=> InRange
                      /\ analysis[q].status = "acceptable" <=> (~InRange /\ InBand)
                      /\ analysis[q].status = "critical" <=> ~InBand

\* 30.8 degrees, exactly 1.1 * 28: acceptable; pH 6.5: optimal.
C17_Witness ==
    /\ call.op = "record_conditions"
    /\ call.conditions.temperature = 308
    /\ ret.result.analysis["temperature"].status = "acceptable"
    /\ ret.result.analysis["ph_level"].status = "optimal"

\* The parameter an alert is about: 1 temperature, 2 humidity, 3 pH.
AlertKind(a) ==
    CASE a.alert \in {"Temperature too low", "Temperature too high"} -> 1
      [] a.alert \in {"Humidity too low", "Humidity too high"} -> 2
      [] a.alert = "pH level out of range" -> 3
      [] OTHER -> 0

\* C18: _generate_alerts gives a temperature alert iff the temperature is
\* below 0.9 min or above 1.1 max, a humidity alert under the same rule, a pH
\* alert iff the pH is outside [6.0, 7.0] with no tolerance, never an alert for
\* CO2 or light, and the alerts in the order temperature, humidity, pH.
C18_Alerts ==
    call.op = "record_conditions" =>
        LET alerts == ret.result.alerts
            c == call.conditions
            Has(k) == \E i \in DOMAIN alerts : AlertKind(alerts[i]) = k
        IN  /\ \A i \in DOMAIN alerts : AlertKind(alerts[i]) \in {1, 2, 3}
            /\ \A i, j \in DOMAIN alerts :
                  i < j => AlertKind(alerts[i]) < AlertKind(alerts[j])
            /\ Has(1) <=> (c.temperature < 9 * 20 \/ c.temperature > 11 * 28)
            /\ Has(2) <=> (c.humidity < 9 * 40 \/ c.humidity > 11 * 60)
            /\ Has(3) <=> (c.ph_level < 60 \/ c.ph_level > 70)

\* Every parameter far too high: three alerts, none for CO2 or light.
C18_Witness ==
    /\ call.op = "record_conditions"
    /\ Len(ret.result.alerts) = 3
    /\ AlertKind(ret.result.alerts[1]) = 1
    /\ AlertKind(ret.result.alerts[3]) = 3
    /\ ret.result.analysis["co2_level"].status = "critical"
    /\ ret.result.analysis["light_intensity"].status = "critical"

----------------------------------------------------------------------------
(* The window of get_environment_analytics: up to MaxConditions conditions *)
(* recorded for one pod, each either far outside every tolerance band and  *)
(* stamped day 0 or inside every optimal range and stamped day 1, in any   *)
(* order.                                                                  *)

MaxConditions == 11

WindowReadings ==
    {[q \in DOMAIN Baseline(0) |->
         IF q = "timestamp" THEN 0 ELSE 20 * optimal_ranges(q)[2]],
     Baseline(1)}

WindowRecord ==
    /\ Len(GetList(condition_history, "a")) < MaxConditions
    /\ \E c \in WindowReadings : monitor_record("a", c)

NextWindow == WindowRecord \/ MonitorAnalytics \/ Tick

SpecWindow == Init /\ [][NextWindow]_vars

\* The conditions of a list stamped at or after the cutoff.
InWindow(history, hours, t) ==
    {i \in DOMAIN history : 24 * history[i].timestamp >= 24 * t - hours}

\* C19: get_environment_analytics answers "no data" for a pod without
\* conditions; with conditions in the window it takes exactly those; with
\* conditions but none in the window it takes the last min(10, n); in both
\* cases measurements is the size of what it took, at least 1, and the
\* statistics are those of what it took.
C19_WindowFallback ==
    call.op = "get_environment_analytics" =>
        LET history == GetList(condition_history, call.pod_id)
            n == Len(history)
            inside == InWindow(history, call.hours, call.at)
            taken == IF inside # {} THEN inside
                     ELSE {i \in DOMAIN history : i > n - 10}
            a == ret.analytics
        IN  IF n = 0 THEN a = [error |-> "No environmental data available"]
            ELSE /\ "error" \notin DOMAIN a
                 /\ a.measurements = Cardinality(taken)
                 /\ a.measurements >= 1
                 /\ inside = {} => a.measurements = IF n < 10 THEN n ELSE 10
                 /\ a.temperature.min \in {history[i].temperature : i \in taken}
                 /\ a.temperature.max \in {history[i].temperature : i \in taken}
                 /\ \A i \in taken : /\ a.temperature.min <= history[i].temperature
                                     /\ history[i].temperature <= a.temperature.max
                                     /\ a.co2.min <= history[i].co2_level
                                     /\ history[i].co2_level <= a.co2.max
                 /\ Num(a.humidity.average) = 550 * Den(a.humidity.average)
                       <=> \A i \in taken : history[i].humidity = 550

\* Eleven conditions stamped day 0 and asked about on day 1 with hours = 0:
\* none is in the window and the last ten are taken.
C19_Witness ==
    /\ call.op = "get_environment_analytics"
    /\ call.hours = 0
    /\ call.at = 1
    /\ Len(GetList(condition_history, "a")) = 11
    /\ InWindow(condition_history["a"], 0, 1) = {}
    /\ ret.analytics.measurements = 10

\* C20: overall_status is the status of the most recent condition (the one
\* with the largest timestamp) of those taken: critical if one of its
\* parameters is critical, else acceptable if more than 2 are acceptable, else
\* optimal.
C20_StatusOfMostRecent ==
    (call.op = "get_environment_analytics" /\ "error" \notin DOMAIN ret.analytics) =>
        LET history == GetList(condition_history, call.pod_id)
            inside == InWindow(history, call.hours, call.at)
            taken == IF inside # {} THEN inside
                     ELSE {i \in DOMAIN history : i > Len(history) - 10}
        IN  \E i \in taken :
               /\ \A j \in taken : history[j].timestamp <= history[i].timestamp
               /\ LET critical == {q \in ParameterSet : status_of(q, history[i][q]) = "critical"}
                      acceptable == {q \in ParameterSet :
                                        status_of(q, history[i][q]) = "acceptable"}
                  IN  ret.analytics.overall_status =
                          IF critical # {} THEN "critical"
                          ELSE IF Cardinality(acceptable) > 2 THEN "acceptable"
                          ELSE "optimal"


----------------------------------------------------------------------------
(* The read operations: every query of the ledger and of the coordinator   *)
(* next to the mutating handlers, and the editor of stored payloads, which *)
(* brings the states where verification fails.  The clock stands still:   *)
(* every call is made at the same reading of it.                           *)

RecordTypes == {"plant_data", "environmental_data", "harvest", "genesis"}

\* CultivationBlockchain.get_records_by_type, from call to return.
chain_get_records_by_type(record_type) ==
    /\ call' = [op |-> "get_records_by_type", key |-> record_type]
    /\ ret' = [records |-> get_records_by_type(chain, record_type)]
    /\ UNCHANGED <<now, chain, pods, plants, growth_history, condition_history,
                   pc, frame, tampered>>

get_system_stats ==
    LET active_plants == {p \in DOMAIN plants : plants[p].growth_stage # "harvest"}
    IN  /\ call' = [op |-> "get_system_stats"]
        /\ ret' = [total_pods |-> Cardinality(DOMAIN pods),
                   active_pods |-> Cardinality({p \in DOMAIN pods : pods[p].active}),
                   total_plants |-> Cardinality(DOMAIN plants),
                   active_plants |-> Cardinality(active_plants),
                   plants_by_stage |->
                       [stage \in Stages |->
                           Cardinality({p \in active_plants :
                                           plants[p].growth_stage = stage})],
                   blockchain |-> get_chain_info(chain),
                   data_integrity |-> verify_chain(chain)]
        /\ UNCHANGED <<now, chain, pods, plants, growth_history, condition_history,
                       pc, frame, tampered>>

GetRecordsByType == \E k \in RecordTypes : chain_get_records_by_type(k)

NextReads ==
    \/ CreatePod
    \/ AddPlant
    \/ UpdatePlantStage
    \/ RecordGrowth
    \/ RecordEnvironment
    \/ RecordHarvest
    \/ GetGrowthAnalytics
    \/ MonitorAnalytics
    \/ GetPlantHistory
    \/ GetRecordsByType
    \/ get_blockchain_info
    \/ verify_data_integrity
    \/ get_system_stats
    \/ Tamper

SpecReads == Init /\ [][NextReads]_vars

\* A step that is a call of the operation op (the editor leaves call as it
\* is and moves tampered; the clock moves only between calls).
Called(op) == HandlerStep /\ tampered' = tampered /\ call'.op = op

\* The stored blocks after the genesis block whose payload has value under
\* key, by index in the chain.
Matching(key, value) ==
    {i \in 2..Len(chain) : key \in DOMAIN chain[i].data /\ chain[i].data[key] = S(value)}

\* records holds one record per block of the index set, each with the stored
\* fields of its block, in increasing block_number, and none of block 0.
ExactlyInOrder(records, indices) ==
    /\ Len(records) = Cardinality(indices)
    /\ \A i \in indices : \E j \in 1..Len(records) :
          /\ records[j].block_number = chain[i].block_number
          /\ records[j].hash = chain[i].hash
          /\ records[j].data = chain[i].data
          /\ records[j].timestamp = isoformat(chain[i].timestamp)
    /\ \A j, k \in 1..Len(records) :
          j < k => records[j].block_number < records[k].block_number
    /\ \A j \in 1..Len(records) : records[j].block_number # 0

\* C21: get_records_by_id(x) returns exactly the blocks after the genesis
\* block whose payload id is x, and get_records_by_type(k) exactly those whose
\* payload type is k, each in chain order (strictly increasing block_number);
\* the genesis block is never returned, not even for k = "genesis".
C21_RecordsExact ==
    [][/\ Called("get_plant_history")
          => ExactlyInOrder(ret'.records, Matching("id", call'.plant_id))
       /\ Called("get_records_by_type")
          => /\ ExactlyInOrder(ret'.records, Matching("type", call'.key))
             /\ call'.key = "genesis" => ret'.records = <<>>]_vars

\* Of three blocks, the query by type hands back the last one only.
C21_Witness ==
    /\ call.op = "get_records_by_type"
    /\ call.key = "plant_data"
    /\ Len(chain) = 3
    /\ chain[2].data.type = S("environmental_data")
    /\ Len(ret.records) = 1
    /\ ret.records[1].block_number = 2

\* C22: get_chain_info() returns a consistent snapshot: total_blocks is the
\* length of the chain, is_valid is what verify_chain() returns,
\* latest_block.number is total_blocks - 1 and latest_block.hash is the hash
\* of the last block of the chain.
C22_ChainInfoSnapshot ==
    [][Called("get_blockchain_info")
       => /\ ret'.info.total_blocks = Len(chain)
          /\ ret'.info.is_valid = verify_chain(chain)
          /\ ret'.info.latest_block.number = ret'.info.total_blocks - 1
          /\ ret'.info.latest_block.hash = chain[Len(chain)].hash]_vars

C22_Witness ==
    /\ call.op = "get_blockchain_info"
    /\ ret.info.total_blocks = 3
    /\ ret.info.latest_block.number = 2
    /\ ret.info.latest_block.hash = chain[3].hash
    /\ ret.info.is_valid

ReadOperations ==
    {"verify_data_integrity", "get_blockchain_info", "get_plant_history",
     "get_records_by_type", "get_growth_analytics", "get_environment_analytics",
     "get_system_stats"}

\* C23: the read operations (verify_chain, get_chain_info, get_records_by_id,
\* get_records_by_type, get_growth_analytics, get_environment_analytics and
\* get_system_stats) leave the chain, with every field of every block, the
\* registries of pods and plants and the two analytics histories as they
\* were, whether verification succeeds or fails.
C23_ReadsArePure ==
    [][(HandlerStep /\ tampered' = tampered /\ call'.op \in ReadOperations)
       => /\ chain' = chain
          /\ pods' = pods
          /\ plants' = plants
          /\ growth_history' = growth_history
          /\ condition_history' = condition_history]_vars

\* Verification has just failed on an edited chain with populated registries.
C23_Witness ==
    /\ call.op = "verify_data_integrity"
    /\ ret.valid = FALSE
    /\ tampered # 0
    /\ Len(chain) = 3
    /\ DOMAIN plants # {}
    /\ DOMAIN growth_history # {}


----------------------------------------------------------------------------
(* Harvests: pods with room for two plants, registrations and harvests, on *)
(* a ledger of up to MaxLedger blocks after the genesis block.             *)

MaxLedger == 4
PodSizes == {1, 2}

HarvestCreatePod ==
    \E id \in PodIds, c \in PodSizes : id \notin DOMAIN pods /\ create_pod(id, "pod", c)

HarvestAddPlant ==
    /\ Len(chain) <= MaxLedger
    /\ \E p \in PlantIds, s \in Strains, id \in PodIds : add_plant(p, s, id)

HarvestRecord ==
    /\ Len(chain) <= MaxLedger
    /\ \E p \in PlantIds, q \in Qualities : record_harvest(p, N(150), q)

NextHarvest ==
    \/ HarvestCreatePod
    \/ HarvestAddPlant
    \/ HarvestRecord
    \/ Tick

SpecHarvest == Init /\ [][NextHarvest]_vars

\* C24: after a successful record_harvest(p), plant p has stage harvest, p is
\* not in the current_plants of its pod, and exactly one block, of type
\* harvest and with id p, has been appended, whose record is in the result.
C24_HarvestEffects ==
    [][(HandlerStep /\ call'.op = "record_harvest" /\ ~Raised(ret', "Plant not found"))
       => LET p == call'.plant_id
          IN  /\ plants'[p].growth_stage = "harvest"
              /\ plants'[p].pod_id \in DOMAIN pods'
                 => ~InSeq(p, pods'[plants'[p].pod_id].current_plants)
              /\ Len(chain') = Len(chain) + 1
              /\ SubSeq(chain', 1, Len(chain)) = chain
              /\ LastOf(chain').data.type = S("harvest")
              /\ LastOf(chain').data.id = S(p)
              /\ ret'.blockchain_record = to_record(LastOf(chain'))]_vars


----------------------------------------------------------------------------
(* track_growth and record_conditions called by several threads at once on *)
(* one plant id and one pod id, one call per thread, statement by          *)
(* statement.  Neither GrowthTracker nor EnvironmentalMonitor holds a lock. *)

\* plant_history = self.growth_history.get(plant.id, []) ... metrics = GrowthMetrics(...)
TrackRead(t) ==
    /\ pc[t] = "idle"
    /\ \E h \in Heights :
          frame' = [frame EXCEPT ![t] =
                       [op |-> "track_growth",
                        metrics |-> track_growth_metrics(growth_history,
                                        NewPlant("a", "og", "a", 0), h, None, now)]]
    /\ pc' = [pc EXCEPT ![t] = "track_check"]
    /\ UNCHANGED <<now, chain, pods, plants, growth_history, condition_history,
                   call, ret, tampered>>

\* if plant.id not in self.growth_history:
TrackCheck(t) ==
    /\ pc[t] = "track_check"
    /\ pc' = [pc EXCEPT ![t] = IF frame[t].metrics.plant_id \notin DOMAIN growth_history
                               THEN "track_create" ELSE "track_append"]
    /\ UNCHANGED <<now, chain, pods, plants, growth_history, condition_history,
                   call, ret, frame, tampered>>

\* self.growth_history[plant.id] = []
TrackCreate(t) ==
    /\ pc[t] = "track_create"
    /\ growth_history' = Put(growth_history, frame[t].metrics.plant_id, <<>>)
    /\ pc' = [pc EXCEPT ![t] = "track_append"]
    /\ UNCHANGED <<now, chain, pods, plants, condition_history, call, ret, frame, tampered>>

\* self.growth_history[plant.id].append(metrics); return metrics
TrackAppend(t) ==
    /\ pc[t] = "track_append"
    /\ growth_history' = [growth_history EXCEPT ![frame[t].metrics.plant_id] =
                             Append(@, frame[t].metrics)]
    /\ pc' = [pc EXCEPT ![t] = "done"]
    /\ UNCHANGED <<now, chain, pods, plants, condition_history, call, ret, frame, tampered>>

\* if pod_id not in self.condition_history:
ConditionsCheck(t) ==
    /\ pc[t] = "idle"
    /\ \E c \in Readings(now) :
          frame' = [frame EXCEPT ![t] = [op |-> "record_conditions", pod_id |-> "a",
                                         conditions |-> c]]
    /\ pc' = [pc EXCEPT ![t] = IF "a" \notin DOMAIN condition_history
                               THEN "conditions_create" ELSE "conditions_append"]
    /\ UNCHANGED <<now, chain, pods, plants, growth_history, condition_history,
                   call, ret, tampered>>

\* self.condition_history[pod_id] = []
ConditionsCreate(t) ==
    /\ pc[t] = "conditions_create"
    /\ condition_history' = Put(condition_history, frame[t].pod_id, <<>>)
    /\ pc' = [pc EXCEPT ![t] = "conditions_append"]
    /\ UNCHANGED <<now, chain, pods, plants, growth_history, call, ret, frame, tampered>>

\* self.condition_history[pod_id].append(conditions); return {...}
ConditionsAppend(t) ==
    /\ pc[t] = "conditions_append"
    /\ condition_history' = [condition_history EXCEPT ![frame[t].pod_id] =
                                Append(@, frame[t].conditions)]
    /\ pc' = [pc EXCEPT ![t] = "done"]
    /\ UNCHANGED <<now, chain, pods, plants, growth_history, call, ret, frame, tampered>>

NextHistory ==
    \E t \in Threads :
        \/ TrackRead(t)
        \/ TrackCheck(t)
        \/ TrackCreate(t)
        \/ TrackAppend(t)
        \/ ConditionsCheck(t)
        \/ ConditionsCreate(t)
        \/ ConditionsAppend(t)

SpecHistory == Init /\ [][NextHistory]_vars

CallsOf(op) == {t \in Threads : frame[t].op = op}

\* C25: when the concurrent track_growth calls for one plant id and the
\* concurrent record_conditions calls for one pod id have all returned, the
\* first calls for the key included, the history of the key holds one sample
\* per call: no sample is lost or overwritten.
C25_HistoryAppendsSerialized ==
    AllDone =>
        /\ Len(GetList(growth_history, "a")) = Cardinality(CallsOf("track_growth"))
        /\ Len(GetList(condition_history, "a")) = Cardinality(CallsOf("record_conditions"))


----------------------------------------------------------------------------
(* Further properties of the sequential system.                            *)

\* C26: in every state reached through the public operations every block of
\* the chain, the genesis block included, has hash = calculate_hash() over its
\* block_number, timestamp, serialized payload and previous_hash; the stored
\* hash is assigned at construction and no operation assigns it again.
C26_HashInvariant ==
    /\ [](\A i \in 1..Len(chain) : chain[i].hash = calculate_hash(chain[i]))
    /\ [][\A i \in 1..Len(chain) :
             i <= Len(chain') /\ chain'[i].hash = chain[i].hash]_vars

\* A registration at time 0 and a reading, with a datetime in its payload,
\* at time 1.
C26_Witness ==
    /\ Len(chain) = 3
    /\ chain[2].data.type = S("plant_data")
    /\ chain[3].data.type = S("environmental_data")
    /\ IsDatetime(chain[3].data.data.timestamp)
    /\ chain[3].timestamp = 1
    /\ chain[3].hash = calculate_hash(chain[3])


----------------------------------------------------------------------------
(* The health rule of track_growth on its own: a tracker holding one       *)
(* measurement of plant c, taken at time 0 at 10 cm, is handed a plant of  *)
(* any stage and score and one more height, some days later.               *)

Scores == {0, 40, 45, 50, 55, 60, 95, 96, 100}
ScoreHeights == {10, 11, 15}
DaysLater == 0..3

\* Plant(id="c", ..., growth_stage=stage, health_score=score)
PlantWith(stage, score) == [PlantAt(stage) EXCEPT !.health_score = score]

InitScore ==
    /\ \E stage \in Stages, score \in Scores : plants = Put(EmptyDict, "c", PlantWith(stage, score))
    /\ now \in DaysLater
    /\ growth_history = track_growth(EmptyDict, PlantAt("seed"), 10, None, 0)
    /\ chain = create_genesis_block(0)
    /\ pods = EmptyDict
    /\ condition_history = EmptyDict
    /\ call = [op |-> "__init__"]
    /\ ret = None
    /\ pc = [t \in Threads |-> "idle"]
    /\ frame = [t \in Threads |-> None]
    /\ tampered = 0

ScoreTrack ==
    /\ call.op = "__init__"
    /\ \E h \in ScoreHeights, l \in LeafCounts :
          /\ call' = [op |-> "track_growth", plant |-> plants["c"]]
          /\ growth_history' = track_growth(growth_history, plants["c"], h, l, now)
          /\ ret' = [metrics |-> LastOf(growth_history'["c"])]
    /\ UNCHANGED <<now, chain, pods, plants, condition_history, pc, frame, tampered>>

NextScore == ScoreTrack

SpecScore == InitScore /\ [][NextScore]_vars

\* The expected rate of a stage, in tenths of a cm per day.
ExpectedTenths(stage) ==
    CASE stage = "seedling" -> 5
      [] stage = "vegetative" -> 20
      [] stage = "flowering" -> 3
      [] OTHER -> 10

\* rate < 0.5 * expected and rate > 1.5 * expected, for a rate n / d.
BelowBand(rate, stage) == 20 * Num(rate) < ExpectedTenths(stage) * Den(rate)
AboveBand(rate, stage) == 20 * Num(rate) > 3 * ExpectedTenths(stage) * Den(rate)

\* C27: for a plant with a score in [0, 100], a defined rate below half the
\* expected rate of the stage gives the score less 10 but not below 50, a
\* defined rate above one and a half times the expected rate gives the score
\* plus 5 but not above 100, and any other rate or no rate gives the score
\* unchanged; the expected rate is 0.5, 2.0, 0.3 for seedling, vegetative,
\* flowering and 1.0 for every other stage.  A rate below the band never
\* gives a score above the current one.
C27_HealthRule ==
    call.op = "track_growth" =>
        LET score == call.plant.health_score
            stage == call.plant.growth_stage
            rate == ret.metrics.growth_rate
            new == ret.metrics.health_score
        IN  /\ (rate # None /\ BelowBand(rate, stage))
               => new = Max(50, score - 10) /\ new <= score
            /\ (rate # None /\ AboveBand(rate, stage))
               => new = Min(100, score + 5)
            /\ (rate = None \/ (~BelowBand(rate, stage) /\ ~AboveBand(rate, stage)))
               => new = score


\* C28: record_conditions(pod, sample) appends exactly one sample to the
\* history of that pod, creating the history if there is none, and returns
\* recorded = true with the classification and the alerts of that same
\* sample; it does not fail because of the values of the sample.
C28_RecordConditions ==
    [][(HandlerStep /\ call'.op = "record_environment" /\ call'.pod_id \in DOMAIN pods)
       => LET pod_id == call'.pod_id
              sample == pods'[pod_id].current_conditions
          IN  /\ condition_history'[pod_id]
                    = Append(GetList(condition_history, pod_id), sample)
              /\ \A k \in DOMAIN condition_history \ {pod_id} :
                    condition_history'[k] = condition_history[k]
              /\ "raise" \notin DOMAIN ret'
              /\ ret'.result.recorded = TRUE
              /\ ret'.result.analysis = _analyze_conditions(sample)
              /\ ret'.result.alerts = _generate_alerts(sample)]_vars

\* The second of two different samples of pod a: its alerts are returned.
C28_Witness ==
    /\ call.op = "record_environment"
    /\ "a" \in DOMAIN condition_history
    /\ Len(condition_history["a"]) = 2
    /\ condition_history["a"][1] # condition_history["a"][2]
    /\ ret.result.recorded
    /\ ret.result.alerts = _generate_alerts(condition_history["a"][2])
    /\ ret.result.alerts # _generate_alerts(condition_history["a"][1])


\* C29: in every state reached by any sequential mix of create_pod (with a
\* capacity of 0 or more), add_plant, update_plant_stage, record_growth,
\* record_environment and record_harvest, every pod holds at most capacity
\* many plants in current_plants.
C29_Capacity ==
    \A id \in DOMAIN pods : Len(pods[id].current_plants) <= pods[id].capacity

\* A pod of capacity 1 filled by an accepted add_plant, after another block.
C29_Witness ==
    /\ call.op = "add_plant"
    /\ "plant" \in DOMAIN ret
    /\ pods[call.pod_id].capacity = 1
    /\ Len(pods[call.pod_id].current_plants) = 1
    /\ Len(chain) = 3


----------------------------------------------------------------------------
(* The ledger and a caller that keeps what it passed in and what it was    *)
(* handed out.  Block.__init__ stores the dict it is given, and the two    *)
(* filters put block.data itself into the records they return, so these    *)
(* dicts are the stored ones: an assignment to one of their keys by the    *)
(* caller is an assignment in the stored block.                            *)

\* d[k] = "edited" for a key k of the dict d.
CallerEdits(d) == {[d EXCEPT ![k] = S("edited")] : k \in DOMAIN d} \ {d}

\* records = get_records_by_id(x) or get_records_by_type(k), then
\* records[j]["data"][key] = "edited".
MutateReturned ==
    /\ tampered = 0
    /\ call.op \in {"get_plant_history", "get_records_by_type"}
    /\ \E j \in DOMAIN ret.records :
          LET i == ret.records[j].block_number + 1
          IN  \E d \in CallerEdits(chain[i].data) :
                 /\ chain' = [chain EXCEPT ![i].data = d]
                 /\ ret' = [ret EXCEPT !.records[j].data = d]
                 /\ tampered' = i
    /\ UNCHANGED <<now, pods, plants, growth_history, condition_history,
                   call, pc, frame>>

\* add_block(payload), or record_plant_data(id, payload) and
\* record_harvest(id, payload), which store payload under the key "data" of
\* a dict of their own; then payload[key] = "edited".
MutatePassed ==
    /\ tampered = 0
    /\ call.op \in {"add_block", "record_plant_data", "record_harvest"}
    /\ LET i == Len(chain)
       IN  /\ IF call.op = "add_block"
              THEN \E d \in CallerEdits(chain[i].data) :
                      chain' = [chain EXCEPT ![i].data = d]
              ELSE \E d \in CallerEdits(chain[i].data.data) :
                      chain' = [chain EXCEPT ![i].data.data = d]
           /\ tampered' = i
    /\ UNCHANGED <<now, pods, plants, growth_history, condition_history,
                   call, ret, pc, frame>>

NextAlias ==
    \/ ChainAddBlock
    \/ ChainRecordPlantData
    \/ ChainRecordEnvironmentalData
    \/ ChainRecordHarvest
    \/ GetPlantHistory
    \/ GetRecordsByType
    \/ MutateReturned
    \/ MutatePassed
    \/ Tick

SpecAlias == Init /\ [][NextAlias]_vars

\* C30: nothing handed out by or passed into the public interface aliases a
\* stored block: when a caller changes a record returned by get_records_by_id
\* or get_records_by_type, or the payload dict it passed to add_block,
\* record_plant_data or record_harvest, no stored block changes and
\* verify_chain() stays true.
C30_ExclusiveOwnership ==
    [][tampered' # tampered => (chain' = chain /\ verify_chain(chain'))]_vars


----------------------------------------------------------------------------
(* Properties of the histories and of the registries.                      *)

\* The timestamps of a list of samples never decrease along the list.
Chronological(history) ==
    \A i, j \in DOMAIN history : i < j => history[i].timestamp <= history[j].timestamp

\* Every list of the old dict is a prefix of the list under its key in the new.
GrowsAtEnd(old, new) ==
    \A k \in DOMAIN old :
        /\ k \in DOMAIN new
        /\ Len(new[k]) >= Len(old[k])
        /\ SubSeq(new[k], 1, Len(old[k])) = old[k]

\* C31: the history of every plant id and of every pod id only grows at its
\* end, and the timestamps of its samples are non-decreasing in insertion
\* order, for growth samples and for environmental samples, the clock being
\* monotonic.
C31_HistoriesChronological ==
    /\ [](/\ \A k \in DOMAIN growth_history : Chronological(growth_history[k])
          /\ \A k \in DOMAIN condition_history : Chronological(condition_history[k]))
    /\ [][/\ GrowsAtEnd(growth_history, growth_history')
          /\ GrowsAtEnd(condition_history, condition_history')]_vars


----------------------------------------------------------------------------
(* The life of a plant: pods with room for two plants, registrations,      *)
(* stage changes, measurements and harvests, on a ledger of up to          *)
(* MaxLedger blocks after the genesis block.                               *)

LifecycleStage ==
    /\ Len(chain) <= MaxLedger
    /\ \E p \in PlantIds, st \in StageInputs : update_plant_stage(p, st)

LifecycleGrowth ==
    /\ Len(chain) <= MaxLedger
    /\ \E p \in PlantIds, h \in Heights, l \in LeafCounts : record_growth(p, h, l)

NextLifecycle ==
    \/ HarvestCreatePod
    \/ HarvestAddPlant
    \/ HarvestRecord
    \/ LifecycleStage
    \/ LifecycleGrowth
    \/ Tick

SpecLifecycle == Init /\ [][NextLifecycle]_vars

\* C32: in every reachable state no plant id occurs more than once in the
\* current_plants of a pod, no plant id occurs in the current_plants of two
\* pods, and every id in the current_plants of pod P is a registered plant
\* whose pod_id is P, also after add_plant was called again with a plant id
\* already in use.
C32_MembershipWellFormed ==
    /\ \A P \in DOMAIN pods :
          /\ \A i, j \in DOMAIN pods[P].current_plants :
                i # j => pods[P].current_plants[i] # pods[P].current_plants[j]
          /\ \A i \in DOMAIN pods[P].current_plants :
                /\ pods[P].current_plants[i] \in DOMAIN plants
                /\ plants[pods[P].current_plants[i]].pod_id = P
    /\ \A P, Q \in DOMAIN pods :
          P # Q => \A i \in DOMAIN pods[P].current_plants :
                      ~InSeq(pods[P].current_plants[i], pods[Q].current_plants)


RECURSIVE Entries(_)
\* The number of entries of current_plants over a set of pod ids.
Entries(ids) ==
    IF ids = {} THEN 0
    ELSE LET P == CHOOSE x \in ids : TRUE
         IN  Len(pods[P].current_plants) + Entries(ids \ {P})

\* C33: in every reachable state a registered plant is listed in the
\* current_plants of its pod if and only if its growth_stage is not harvest,
\* and so the active_plants count of get_system_stats is the number of
\* entries over all pods' current_plants, for any interleaving of add_plant,
\* update_plant_stage and record_harvest.
C33_ListedIffNotHarvested ==
    /\ \A p \in DOMAIN plants :
          (/\ plants[p].pod_id \in DOMAIN pods
           /\ InSeq(p, pods[plants[p].pod_id].current_plants))
          <=> plants[p].growth_stage # "harvest"
    /\ Cardinality({p \in DOMAIN plants : plants[p].growth_stage # "harvest"})
          = Entries(DOMAIN pods)

\* Block i of the chain is a plant_data block of plant p with the action.
PlantBlock(i, p, action) ==
    /\ "id" \in DOMAIN chain[i].data
    /\ chain[i].data.id = S(p)
    /\ chain[i].data.type = S("plant_data")
    /\ chain[i].data.data.action = S(action)

HarvestBlocks(p) ==
    {i \in 1..Len(chain) : /\ "id" \in DOMAIN chain[i].data
                           /\ chain[i].data.id = S(p)
                           /\ chain[i].data.type = S("harvest")}

\* C34: a plant is harvested at most once: the chain holds at most one block
\* of type harvest per plant id, and once the stage of a plant is harvest no
\* later update_plant_stage, record_growth or record_harvest appends a record
\* for it or changes its stage.
C34_HarvestedOnce ==
    /\ [](\A p \in PlantIds : Cardinality(HarvestBlocks(p)) <= 1)
    /\ [][\A p \in DOMAIN plants :
             (/\ plants[p].growth_stage = "harvest"
              /\ HandlerStep
              /\ call'.op \in {"update_plant_stage", "record_growth", "record_harvest"})
             => /\ plants'[p].growth_stage = "harvest"
                /\ Len(chain') > Len(chain)
                   => LastOf(chain').data.id # S(p)]_vars

\* C35: for every registered plant with a growth history the height and the
\* health_score of the plant are those of the last sample, and a growth rate
\* is computed only against an earlier sample of the same registration of
\* the plant: a measurement that yields a rate follows another measurement
\* made after the plant was last registered by add_plant.
C35_EntityAgreesWithHistory ==
    /\ \A p \in DOMAIN plants :
          GetList(growth_history, p) # <<>>
          => /\ plants[p].height = N(LastOf(growth_history[p]).height)
             /\ plants[p].health_score = LastOf(growth_history[p]).health_score
    /\ (/\ call.op = "record_growth"
        /\ "metrics" \in DOMAIN ret
        /\ ret.metrics.growth_rate # None)
       => \E i \in 2..(Len(chain) - 1) :
             /\ PlantBlock(i, call.plant_id, "growth_measurement")
             /\ \A j \in i..Len(chain) : ~PlantBlock(j, call.plant_id, "planted")


\* C36: get_plant_history(p) returns only blocks of operations on plant p,
\* of type plant_data or harvest, and never an environmental_data block of a
\* pod, for every choice of pod and plant identifiers, a pod and a plant
\* with the same identifier included.
C36_PlantHistoryOnlyPlantBlocks ==
    call.op = "get_plant_history" =>
        \A j \in DOMAIN ret.records :
            ret.records[j].data.type \in {S("plant_data"), S("harvest")}


----------------------------------------------------------------------------
(* Classification next to alerts: one condition recorded in a monitor      *)
(* without history, with values on and next to the thresholds or with      *)
(* float('nan') for some of its parameters.                                *)

\* EnvironmentalCondition(..., temperature=float('nan'), ...) and the like.
NaNReadings(t) ==
    {[q \in DOMAIN Baseline(t) \cup {"nan"} |->
         IF q = "nan" THEN ps ELSE Baseline(t)[q]] : ps \in SUBSET ParameterSet \ {{}}}

SampleRecord ==
    /\ condition_history = EmptyDict
    /\ \E c \in ClassifyReadings(now) \cup NaNReadings(now) : monitor_record("a", c)

NextSamples == SampleRecord \/ Tick

SpecSamples == Init /\ [][NextSamples]_vars

\* C37: for every sample a temperature alert is produced if and only if the
\* classification gives temperature the status critical, likewise for
\* humidity, and a critical pH status implies a pH alert.
C37_AlertsAgreeWithStatus ==
    call.op = "record_conditions" =>
        LET alerts == ret.result.alerts
            analysis == ret.result.analysis
            Has(k) == \E i \in DOMAIN alerts : AlertKind(alerts[i]) = k
        IN  /\ Has(1) <=> analysis["temperature"].status = "critical"
            /\ Has(2) <=> analysis["humidity"].status = "critical"
            /\ analysis["ph_level"].status = "critical" => Has(3)


\* The environmental_data blocks of pod id in the chain.
EnvironmentBlocks(id) ==
    {i \in 1..Len(chain) : /\ "id" \in DOMAIN chain[i].data
                           /\ chain[i].data.id = S(id)
                           /\ chain[i].data.type = S("environmental_data")}

\* C38: in every state reached through the coordinator the number of growth
\* samples of every plant id is the number of blocks with that id and the
\* action growth_measurement, and the number of environmental samples of
\* every pod id is the number of environmental_data blocks with that id.
C38_LedgerMatchesAnalytics ==
    \A id \in PlantIds \cup PodIds :
        /\ Len(GetList(growth_history, id))
              = Cardinality({i \in 1..Len(chain) : PlantBlock(i, id, "growth_measurement")})
        /\ Len(GetList(condition_history, id)) = Cardinality(EnvironmentBlocks(id))

\* A pod and a plant under the identifier a: one reading of the pod, the
\* registration of the plant, no measurement of it.
C38_Witness ==
    /\ Len(chain) = 3
    /\ "a" \in DOMAIN plants
    /\ Len(GetList(condition_history, "a")) = 1
    /\ EnvironmentBlocks("a") = {2}
    /\ PlantBlock(3, "a", "planted")
    /\ GetList(growth_history, "a") = <<>>


\* C39: get_growth_analytics and get_environment_analytics on a key without
\* history return the error outcome and create no entry for the key in the
\* history map, and get_environment_analytics never returns the
\* overall_status "unknown" in a result that is not the error.
C39_NoHistoryQueries ==
    [][/\ (Called("get_growth_analytics")
              /\ GetList(growth_history, call'.plant_id) = <<>>)
          => /\ ret'.analytics = [error |-> "No growth data available"]
             /\ DOMAIN growth_history' = DOMAIN growth_history
       /\ (Called("get_environment_analytics")
              /\ GetList(condition_history, call'.pod_id) = <<>>)
          => /\ ret'.analytics = [error |-> "No environmental data available"]
             /\ DOMAIN condition_history' = DOMAIN condition_history
       /\ (Called("get_environment_analytics") /\ "error" \notin DOMAIN ret'.analytics)
          => ret'.analytics.overall_status \in {"optimal", "acceptable", "critical"}]_vars

\* Pod a exists and has no reading: the query reports the error and the
\* monitor still has no entry for it.
C39_Witness ==
    /\ call.op = "get_environment_analytics"
    /\ call.pod_id = "a"
    /\ "a" \in DOMAIN pods
    /\ ret.analytics = [error |-> "No environmental data available"]
    /\ "a" \notin DOMAIN condition_history
    /\ Len(chain) = 3


----------------------------------------------------------------------------
(* The two services with two keys each: track_growth for the plants a and  *)
(* c and record_conditions for the pods a and b, up to MaxEntries samples  *)
(* in all.                                                                 *)

MaxEntries == 3

RECURSIVE Samples(_, _)
\* The number of samples under a set of keys of a history dict.
Samples(d, keys) ==
    IF keys = {} THEN 0
    ELSE LET k == CHOOSE x \in keys : TRUE
         IN  Len(d[k]) + Samples(d, keys \ {k})

Stored == Samples(growth_history, DOMAIN growth_history)
              + Samples(condition_history, DOMAIN condition_history)

IsolationTrack ==
    /\ Stored < MaxEntries
    /\ \E p \in PlantIds, h \in Heights, l \in LeafCounts :
          /\ call' = [op |-> "track_growth", plant_id |-> p]
          /\ growth_history' = track_growth(growth_history, NewPlant(p, "og", "a", 0),
                                            h, l, now)
          /\ ret' = [metrics |-> LastOf(growth_history'[p])]
    /\ UNCHANGED <<now, chain, pods, plants, condition_history, pc, frame, tampered>>

IsolationRecord ==
    /\ Stored < MaxEntries
    /\ \E id \in PodIds : \E c \in Readings(now) : monitor_record(id, c)

NextIsolation == IsolationTrack \/ IsolationRecord \/ Tick

SpecIsolation == Init /\ [][NextIsolation]_vars

\* C40: track_growth for plant A changes the growth history of A only and
\* record_conditions for pod P the condition history of P only: the
\* histories and the analytics of every other key are as before, and the
\* growth rate of the new sample is computed against the last sample of A
\* itself.
C40_PerKeyIsolation ==
    [][/\ (HandlerStep /\ call'.op = "track_growth")
          => LET A == call'.plant_id
                 own == GetList(growth_history, A)
                 m == ret'.metrics
             IN  /\ DOMAIN growth_history' = DOMAIN growth_history \cup {A}
                 /\ \A k \in DOMAIN growth_history \ {A} :
                       /\ growth_history'[k] = growth_history[k]
                       /\ get_growth_analytics(growth_history', k)
                             = get_growth_analytics(growth_history, k)
                 /\ condition_history' = condition_history
                 /\ growth_history'[A] = Append(own, m)
                 /\ m.growth_rate =
                       IF own = <<>> \/ now = LastOf(own).timestamp THEN None
                       ELSE Frac(m.height - LastOf(own).height, now - LastOf(own).timestamp)
       /\ (HandlerStep /\ call'.op = "record_conditions")
          => LET P == call'.pod_id
             IN  /\ DOMAIN condition_history' = DOMAIN condition_history \cup {P}
                 /\ \A k \in DOMAIN condition_history \ {P} :
                       /\ condition_history'[k] = condition_history[k]
                       /\ get_environment_analytics(condition_history', k, 24, now)
                             = get_environment_analytics(condition_history, k, 24, now)
                 /\ growth_history' = growth_history
                 /\ condition_history'[P]
                       = Append(GetList(condition_history, P), call'.conditions)]_vars

\* Plant a measured, then plant c at another height a day later, then plant
\* a again: its rate is that against its own first sample.
C40_Witness ==
    /\ call.op = "track_growth"
    /\ call.plant_id = "a"
    /\ DOMAIN growth_history = {"a", "c"}
    /\ Len(growth_history["a"]) = 2
    /\ Len(growth_history["c"]) = 1
    /\ growth_history["a"][1].timestamp = 0
    /\ growth_history["c"][1].timestamp = 1
    /\ growth_history["c"][1].height # growth_history["a"][1].height
    /\ growth_history["a"][2].timestamp = 1
    /\ growth_history["a"][2].growth_rate
          = Frac(growth_history["a"][2].height - growth_history["a"][1].height, 1)

====
